---------------------------- MODULE Spec2Model ----------------------------
(***************************************************************************)
(* A model of the STIGQter data layer (DbManager) and of the jobs that     *)
(* drive it.  Tables are sets of rows; a row is a record that carries the  *)
(* columns the operations read or write.  Every id column is an SQLite     *)
(* AUTOINCREMENT key: the next id of a table is one more than the largest  *)
(* id the table ever held (variable seq), also after rows are deleted.     *)
(* The schema declares FOREIGN KEY clauses, but no connection ever issues  *)
(* PRAGMA foreign_keys = ON, so SQLite does not enforce them; the UNIQUE   *)
(* columns (Family.Acronym, Family.Description, Asset.hostName) are        *)
(* enforced.                                                               *)
(***************************************************************************)
EXTENDS Integers, Sequences, FiniteSets, TLC

VARIABLES
    Asset,      \* rows of table Asset:     [id, hostName]
    STIG,       \* rows of table STIG:      [id, title, version, release]
    STIGCheck,  \* rows of table STIGCheck: [id, STIGId, CCIId]
    AssetSTIG,  \* rows of table AssetSTIG: [id, AssetId, STIGId]
    CKLCheck,   \* rows of table CKLCheck:  [id, AssetId, STIGCheckId, status, ...]
    Family,     \* rows of table Family:    [id, Acronym, Description]
    Control,    \* rows of table Control:   [id, FamilyId, number, enhancement, title]
    CCI,        \* rows of table CCI:       [id, ControlId, cci, definition]
    worker,     \* the WorkerCCIAdd job: its position in process() and its locals
    seq,        \* sqlite_sequence: table name -> largest id ever used
    last,       \* the DbManager call that produced this state, and its result
    delayCommit,  \* DbManager::_delayCommit of the DbManager object in use
    ui,         \* the main window: the enabled widgets, the interactive thread
    threads,    \* STIGQter::threads and workers: the jobs started, in order
    connections,  \* QSqlDatabase connections: name -> the threads that used it
    files,      \* the checklist files written by an export
    variables,  \* rows of table variables: [name, value]
    schema      \* the tables of the database file (empty: no file yet)

vars == <<Asset, STIG, STIGCheck, AssetSTIG, CKLCheck, Family, Control, CCI,
          worker, seq, last, delayCommit, ui, threads, connections, files,
          variables, schema>>

\* the state outside the tables of the data model, and that state without
\* the commit mode
env == <<ui, threads, connections, files, variables, schema>>
ext == <<delayCommit, env>>

(***************************************************************************)
(* Bounds of the model.                                                    *)
(***************************************************************************)
MaxAssetId == 2
MaxSTIGId == 2
MaxSTIGCheckId == 2
MaxAssetSTIGId == 2
MaxCKLCheckId == 2
\* room for the hard-coded privacy rows and for the rows of the feeds
MaxFamilyId == 10
MaxControlId == 38
MaxCCIId == 2

HostNames == {"h1", "h2"}
STIGKeys ==
    { [title |-> "t1", version |-> 1, release |-> "r1"],
      [title |-> "t1", version |-> 2, release |-> "r1"] }
MaxChecks == 2

TableNames ==
    {"Asset", "STIG", "STIGCheck", "AssetSTIG", "CKLCheck", "Family", "Control", "CCI"}

(***************************************************************************)
(* The record of a call: the operation, its boolean result and the title   *)
(* of the warning it raised ("" for none).                                 *)
(***************************************************************************)
Call(op, ret, warn) == [op |-> op, ret |-> ret, warn |-> warn]

(***************************************************************************)
(* The job's locals: pc is the step of process() it is in, page, events    *)
(* and toAdd what is left of the document or list of the step, i the index *)
(* of the next hard-coded row, control, title and inStatement the locals   *)
(* of Step 4.  families records the acronyms AddFamily was called with in  *)
(* this run.                                                               *)
(***************************************************************************)
Idle ==
    [pc |-> "idle", page |-> <<>>, events |-> <<>>, toAdd |-> <<>>, i |-> 0,
     control |-> "", title |-> "", inStatement |-> FALSE, families |-> {}]

(***************************************************************************)
(* The program at rest after its first DbManager was constructed: the      *)
(* schema is created and version 1 stored, commits are not delayed, the    *)
(* main window accepts input and no job was started.                       *)
(***************************************************************************)
Version1 == <<[name |-> "version", value |-> "1"]>>

MainThread == 0

Widgets ==
    {"btnClearCCIs", "btnClearSTIGs", "btnCreateCKL", "btnDeleteEmassImport",
     "btnFindingsReport", "btnImportCCIs", "btnImportCKL", "btnImportEmass",
     "btnImportSTIGs", "btnOpenCKL", "btnQuit", "menubar"}

\* STIGQter::EnableInput and the SelectSTIG it ends with: the widgets it
\* enables, from the stored families and STIGs and from the items selected
\* in the lists (no eMASS results are imported here, so isImport is false)
EnableInput(families, stigs, selAssets, selSTIGs) ==
    (IF families # {}
     THEN (IF stigs = {} THEN {"btnClearCCIs"} ELSE {})
          \cup {"btnImportEmass", "btnImportSTIGs"}
     ELSE {"btnImportCCIs"})
    \cup {"btnClearSTIGs", "btnFindingsReport", "btnImportCKL", "btnQuit", "menubar"}
    \cup (IF selAssets # {} THEN {"btnOpenCKL"} ELSE {})
    \cup (IF selSTIGs # {} THEN {"btnCreateCKL"} ELSE {})

\* the main window after its constructor: EnableInput, DisplaySTIGs and
\* DisplayAssets have run, nothing is selected and no job was started.  The
\* connection of the interactive thread was created by it.
InitExt ==
    /\ delayCommit = FALSE
    /\ ui = [enabled |-> EnableInput(Family, STIG, {}, {}),
             lstAssets |-> Asset, lstSTIGs |-> STIG,
             selAssets |-> {}, selSTIGs |-> {},
             updated |-> {}, pending |-> 0, jobs |-> 0, pc |-> "idle"]
    /\ threads = <<>>
    /\ connections = [n \in {MainThread} |->
                        [created |-> MainThread, users |-> {MainThread}]]
    /\ files = {}
    /\ variables = Version1
    /\ schema = TableNames \cup {"variables"}

Init ==
    /\ Asset = {}
    /\ STIG = {}
    /\ STIGCheck = {}
    /\ AssetSTIG = {}
    /\ CKLCheck = {}
    /\ Family = {}
    /\ Control = {}
    /\ CCI = {}
    /\ worker = Idle
    /\ seq = [t \in TableNames |-> 0]
    /\ last = Call("init", TRUE, "")
    /\ InitExt

(***************************************************************************)
(* DbManager::GetAsset(int id), GetAsset(hostName), GetAsset(asset): the   *)
(* id of the row found, -1 (the default Asset) when there is none.         *)
(***************************************************************************)
GetAssetById(id) ==
    IF \E a \in Asset : a.id = id THEN id ELSE -1

GetAssetByHostName(hostName) ==
    IF \E a \in Asset : a.hostName = hostName
    THEN (CHOOSE a \in Asset : a.hostName = hostName).id
    ELSE -1

GetAsset(asset) ==
    IF asset.id > 0 /\ GetAssetById(asset.id) > 0
    THEN GetAssetById(asset.id)
    ELSE GetAssetByHostName(asset.hostName)

(***************************************************************************)
(* DbManager::GetSTIG(int id), GetSTIG(title, version, release),           *)
(* GetSTIG(stig): the id of the row found, -1 (the default STIG) otherwise.*)
(***************************************************************************)
KeyOf(s) == [title |-> s.title, version |-> s.version, release |-> s.release]

GetSTIGById(id) ==
    IF \E s \in STIG : s.id = id THEN id ELSE -1

GetSTIGByKey(key) ==
    IF \E s \in STIG : KeyOf(s) = key
    THEN (CHOOSE s \in STIG : KeyOf(s) = key).id
    ELSE -1

GetSTIG(stig) ==
    IF stig.id > 0 /\ GetSTIGById(stig.id) > 0
    THEN GetSTIGById(stig.id)
    ELSE GetSTIGByKey(KeyOf(stig))

(***************************************************************************)
(* DbManager::GetSTIGs(asset): the STIG rows mapped to the Asset id.       *)
(* DbManager::GetAssets(stig): the Asset rows mapped to the STIG id.       *)
(***************************************************************************)
GetSTIGs(assetId) ==
    {s \in STIG : \E m \in AssetSTIG : m.AssetId = assetId /\ m.STIGId = s.id}

GetAssets(stigId) ==
    {a \in Asset : \E m \in AssetSTIG :
        /\ m.AssetId = a.id
        /\ m.STIGId = stigId
        /\ \E s \in STIG : s.id = stigId}

(***************************************************************************)
(* DbManager::AddAsset                                                     *)
(***************************************************************************)
AddAsset(asset) ==
    IF \E a \in Asset : a.hostName = asset.hostName
    THEN /\ last' = Call("AddAsset", FALSE, "Asset Already Exists")
         /\ UNCHANGED <<Asset, STIG, STIGCheck, AssetSTIG, CKLCheck, seq>>
    ELSE /\ seq["Asset"] < MaxAssetId
         /\ Asset' = Asset \cup {[id |-> seq["Asset"] + 1, hostName |-> asset.hostName]}
         /\ seq' = [seq EXCEPT !["Asset"] = @ + 1]
         /\ last' = Call("AddAsset", TRUE, "")
         /\ UNCHANGED <<STIG, STIGCheck, AssetSTIG, CKLCheck>>

(***************************************************************************)
(* DbManager::AddSTIG.  stig is the caller's STIG object (id, title,       *)
(* version, release), checks the list of STIGChecks (their CCI ids) and    *)
(* stigExists the flag that lets checks be added to a STIG already stored. *)
(* InsertChecks is the foreach loop: one STIGCheck row per list element,   *)
(* bound to the STIG id and to the check's CCI id as given.                *)
(***************************************************************************)
InsertChecks(stigId, checks) ==
    {[id |-> seq["STIGCheck"] + i, STIGId |-> stigId, CCIId |-> checks[i].cciId] :
        i \in 1..Len(checks)}

\* a variant that inserts the STIG without looking its key up
AddSTIG_NoLookup(stig, checks, stigExists) ==
    LET stigId == seq["STIG"] + 1
    IN  /\ seq["STIG"] < MaxSTIGId
        /\ seq["STIGCheck"] + Len(checks) <= MaxSTIGCheckId
        /\ STIG' = STIG \cup {[id |-> stigId, title |-> stig.title,
                                version |-> stig.version, release |-> stig.release]}
        /\ STIGCheck' = STIGCheck \cup InsertChecks(stigId, checks)
        /\ seq' = [seq EXCEPT !["STIG"] = @ + 1, !["STIGCheck"] = @ + Len(checks)]
        /\ last' = Call("AddSTIG", TRUE, "")
        /\ UNCHANGED <<Asset, AssetSTIG, CKLCheck>>

AddSTIG(stig, checks, stigExists) ==
    LET tmpSTIG == GetSTIGByKey(KeyOf(stig))
        lookup == stig.id <= 0
        found == lookup /\ tmpSTIG > 0
        insert == lookup /\ tmpSTIG <= 0
        stigId == IF found THEN tmpSTIG
                  ELSE IF insert THEN seq["STIG"] + 1
                  ELSE stig.id
    IN  IF found /\ ~stigExists
        THEN /\ last' = Call("AddSTIG", FALSE, "STIG Already Exists")
             /\ UNCHANGED <<Asset, STIG, STIGCheck, AssetSTIG, CKLCheck, seq>>
        ELSE /\ insert => seq["STIG"] < MaxSTIGId
             /\ seq["STIGCheck"] + Len(checks) <= MaxSTIGCheckId
             /\ STIG' = IF insert
                        THEN STIG \cup {[id |-> stigId, title |-> stig.title,
                                         version |-> stig.version,
                                         release |-> stig.release]}
                        ELSE STIG
             /\ STIGCheck' = STIGCheck \cup InsertChecks(stigId, checks)
             /\ seq' = [seq EXCEPT !["STIG"] = IF insert THEN @ + 1 ELSE @,
                                   !["STIGCheck"] = @ + Len(checks)]
             /\ last' = Call("AddSTIG", TRUE, "")
             /\ UNCHANGED <<Asset, AssetSTIG, CKLCheck>>

(***************************************************************************)
(* DbManager::AddSTIGToAsset.  execAssetSTIG and execCKLCheck are the      *)
(* results of the two q.exec() calls, which the code branches on: a        *)
(* statement fails when SQLite cannot run it (the database is locked by    *)
(* another thread's connection, the disk is full).  No transaction is      *)
(* opened, so each statement that ran is durable on its own.               *)
(***************************************************************************)
\* a variant that selects the STIGChecks of every STIG
NewCKLChecks_EverySTIG(assetId, stigId) ==
    LET src == STIGCheck
        rank(c) == Cardinality({d \in src : d.id <= c.id})
    IN  {[id |-> seq["CKLCheck"] + rank(c), AssetId |-> assetId,
          STIGCheckId |-> c.id, status |-> "NotReviewed",
          findingDetails |-> "", comments |-> "", severityOverride |-> "",
          severityJustification |-> ""] : c \in src}

NewCKLChecks(assetId, stigId) ==
    LET src == {c \in STIGCheck : c.STIGId = stigId}
        \* the rows of the SELECT, numbered in id order
        rank(c) == Cardinality({d \in src : d.id <= c.id})
    IN  {[id |-> seq["CKLCheck"] + rank(c), AssetId |-> assetId,
          STIGCheckId |-> c.id, status |-> "NotReviewed",
          findingDetails |-> "", comments |-> "", severityOverride |-> "",
          severityJustification |-> ""] : c \in src}

AddSTIGToAsset(stig, asset, execAssetSTIG, execCKLCheck) ==
    LET tmpAsset == GetAsset(asset)
        tmpSTIG == GetSTIG(stig)
        new == NewCKLChecks(tmpAsset, tmpSTIG)
    IN  IF tmpAsset > 0 /\ tmpSTIG > 0 /\ execAssetSTIG
        THEN /\ seq["AssetSTIG"] < MaxAssetSTIGId
             /\ seq["CKLCheck"] + Cardinality(new) <= MaxCKLCheckId
             /\ AssetSTIG' = AssetSTIG \cup
                    {[id |-> seq["AssetSTIG"] + 1, AssetId |-> tmpAsset,
                      STIGId |-> tmpSTIG]}
             /\ CKLCheck' = IF execCKLCheck THEN CKLCheck \cup new ELSE CKLCheck
             /\ seq' = [seq EXCEPT !["AssetSTIG"] = @ + 1,
                                   !["CKLCheck"] = IF execCKLCheck
                                                   THEN @ + Cardinality(new)
                                                   ELSE @]
             /\ last' = Call("AddSTIGToAsset", execCKLCheck, "")
             /\ UNCHANGED <<Asset, STIG, STIGCheck>>
        ELSE /\ last' = Call("AddSTIGToAsset", FALSE, "")
             /\ UNCHANGED <<Asset, STIG, STIGCheck, AssetSTIG, CKLCheck, seq>>

(***************************************************************************)
(* DbManager::DeleteAsset(const Asset &) and DeleteAsset(int id).          *)
(* asset.STIGs() is the list DbManager::GetSTIGs(asset) returns.           *)
(***************************************************************************)
\* a variant without the check of asset.STIGs()
DeleteAsset_Unguarded(asset) ==
    /\ Asset' = {a \in Asset : a.id # asset.id}
    /\ last' = Call("DeleteAsset", TRUE, "")
    /\ UNCHANGED <<STIG, STIGCheck, AssetSTIG, CKLCheck, seq>>

DeleteAsset(asset) ==
    IF GetSTIGs(asset.id) # {}
    THEN /\ last' = Call("DeleteAsset", FALSE, "Asset Has Mapped STIGs")
         /\ UNCHANGED <<Asset, STIG, STIGCheck, AssetSTIG, CKLCheck, seq>>
    ELSE /\ Asset' = {a \in Asset : a.id # asset.id}
         /\ last' = Call("DeleteAsset", TRUE, "")
         /\ UNCHANGED <<STIG, STIGCheck, AssetSTIG, CKLCheck, seq>>

DeleteAssetById(id) ==
    DeleteAsset([id |-> GetAssetById(id), hostName |-> ""])

(***************************************************************************)
(* DbManager::DeleteSTIG(int id).  tmpStig.Assets() is the list            *)
(* DbManager::GetAssets(stig) returns for the STIG looked up by id.        *)
(***************************************************************************)
\* a variant without the check of tmpStig.Assets()
DeleteSTIG_Unguarded(id) ==
    /\ STIGCheck' = {c \in STIGCheck : c.STIGId # id}
    /\ STIG' = {s \in STIG : s.id # id}
    /\ last' = Call("DeleteSTIG", TRUE, "")
    /\ UNCHANGED <<Asset, AssetSTIG, CKLCheck, seq>>

DeleteSTIG(id) ==
    LET tmpStig == GetSTIGById(id)
    IN  IF GetAssets(tmpStig) # {}
        THEN /\ last' = Call("DeleteSTIG", FALSE, "STIG In Use")
             /\ UNCHANGED <<Asset, STIG, STIGCheck, AssetSTIG, CKLCheck, seq>>
        ELSE /\ STIGCheck' = {c \in STIGCheck : c.STIGId # id}
             /\ STIG' = {s \in STIG : s.id # id}
             /\ last' = Call("DeleteSTIG", TRUE, "")
             /\ UNCHANGED <<Asset, AssetSTIG, CKLCheck, seq>>

(***************************************************************************)
(* DbManager::DeleteSTIGFromAsset                                          *)
(***************************************************************************)
\* a variant that deletes the Asset's CKLChecks of every STIG
DeleteSTIGFromAsset_EverySTIG(stig, asset) ==
    LET tmpSTIG == GetSTIG(stig)
        tmpAsset == GetAsset(asset)
    IN  IF tmpSTIG > 0 /\ tmpAsset > 0
        THEN /\ AssetSTIG' = {m \in AssetSTIG :
                                ~(m.AssetId = tmpAsset /\ m.STIGId = tmpSTIG)}
             /\ CKLCheck' = {k \in CKLCheck : k.AssetId # tmpAsset}
             /\ last' = Call("DeleteSTIGFromAsset", TRUE, "")
             /\ UNCHANGED <<Asset, STIG, STIGCheck, seq>>
        ELSE /\ last' = Call("DeleteSTIGFromAsset", FALSE, "")
             /\ UNCHANGED <<Asset, STIG, STIGCheck, AssetSTIG, CKLCheck, seq>>

DeleteSTIGFromAsset(stig, asset) ==
    LET tmpSTIG == GetSTIG(stig)
        tmpAsset == GetAsset(asset)
    IN  IF tmpSTIG > 0 /\ tmpAsset > 0
        THEN /\ AssetSTIG' = {m \in AssetSTIG :
                                ~(m.AssetId = tmpAsset /\ m.STIGId = tmpSTIG)}
             /\ CKLCheck' = {k \in CKLCheck :
                                ~(/\ k.AssetId = tmpAsset
                                  /\ \E c \in STIGCheck : /\ c.STIGId = tmpSTIG
                                                          /\ c.id = k.STIGCheckId)}
             /\ last' = Call("DeleteSTIGFromAsset", TRUE, "")
             /\ UNCHANGED <<Asset, STIG, STIGCheck, seq>>
        ELSE /\ last' = Call("DeleteSTIGFromAsset", FALSE, "")
             /\ UNCHANGED <<Asset, STIG, STIGCheck, AssetSTIG, CKLCheck, seq>>

(***************************************************************************)
(* The QString operations the parsers use, on TLA+ strings.  Positions are *)
(* 0-based as in Qt and -1 means "not found"; left and right return the    *)
(* whole string when n is negative or not smaller than its length.         *)
(***************************************************************************)
Min(S) == CHOOSE m \in S : \A n \in S : m <= n
Max(S) == CHOOSE m \in S : \A n \in S : m >= n

at(s, i) == SubSeq(s, i + 1, i + 1)

indexOf(s, ch, from) ==
    LET hits == {i \in from..(Len(s) - 1) : at(s, i) = ch}
    IN  IF hits = {} THEN -1 ELSE Min(hits)

contains(s, ch) == indexOf(s, ch, 0) >= 0

left(s, n) == IF n < 0 \/ n >= Len(s) THEN s ELSE SubSeq(s, 1, n)

right(s, n) == IF n < 0 \/ n >= Len(s) THEN s ELSE SubSeq(s, Len(s) - n + 1, Len(s))

mid(s, pos, n) == SubSeq(s, pos + 1, pos + n)

isSpace(ch) == ch \in {" ", "\t", "\n", "\r"}

trimmed(s) ==
    LET keep == {i \in 0..(Len(s) - 1) : ~isSpace(at(s, i))}
    IN  IF keep = {} THEN "" ELSE mid(s, Min(keep), Max(keep) - Min(keep) + 1)

\* the value of a decimal digit, -1 for any other character
digitValue(ch) == indexOf("0123456789", ch, 0)

RECURSIVE decimalValue(_)
decimalValue(d) ==
    IF d = "" THEN 0
    ELSE 10 * decimalValue(left(d, Len(d) - 1)) + digitValue(at(d, Len(d) - 1))

\* QString::toInt: surrounding white space and a sign are accepted, anything
\* that is not a decimal number converts to 0
toInt(s) ==
    LET t == trimmed(s)
        signed == t # "" /\ at(t, 0) \in {"-", "+"}
        digits == IF signed THEN mid(t, 1, Len(t) - 1) ELSE t
    IN  IF digits = "" \/ \E i \in 0..(Len(digits) - 1) : digitValue(at(digits, i)) < 0
        THEN 0
        ELSE IF signed /\ at(t, 0) = "-" THEN 0 - decimalValue(digits)
        ELSE decimalValue(digits)

(***************************************************************************)
(* DbManager::GetFamily(acronym): the id of the Family row, -1 when there  *)
(* is none.                                                                *)
(***************************************************************************)
GetFamily(acronym) ==
    IF \E f \in Family : f.Acronym = acronym
    THEN (CHOOSE f \in Family : f.Acronym = acronym).id
    ELSE -1

(***************************************************************************)
(* DbManager::AddFamily: a plain INSERT, which fails on the UNIQUE columns *)
(* Acronym and Description.  description is the text Sanitize() returns.   *)
(***************************************************************************)
AddFamily(acronym, description) ==
    IF \E f \in Family : f.Acronym = acronym \/ f.Description = description
    THEN /\ last' = Call("AddFamily", FALSE, "")
         /\ UNCHANGED <<Family, Control, CCI, seq>>
    ELSE /\ seq["Family"] < MaxFamilyId
         /\ Family' = Family \cup {[id |-> seq["Family"] + 1, Acronym |-> acronym,
                                    Description |-> description]}
         /\ seq' = [seq EXCEPT !["Family"] = @ + 1]
         /\ last' = Call("AddFamily", TRUE, "")
         /\ UNCHANGED <<Control, CCI>>

(***************************************************************************)
(* DbManager::AddControl.  The control id "FF-N (E)" is cut at its second  *)
(* space, its first two characters are the family, the text after the      *)
(* third character is the number, and a parenthesised part of it is the    *)
(* enhancement when it converts to a non-zero integer.                     *)
(***************************************************************************)
\* the column value of an absent enhancement (SQL NULL)
Null == -1

\* the parse AddControl and GetControl both start with: family, number and
\* the text between the parentheses ("" when there is none)
ParseControl(control) ==
    LET trimmedControl == trimmed(control)
        space1 == indexOf(trimmedControl, " ", 0)
        space2 == IF space1 > 0 THEN indexOf(trimmedControl, " ", space1 + 1) ELSE -1
        tmpControl == IF space2 > 0
                      THEN trimmed(left(trimmedControl, space2 + 1))
                      ELSE trimmedControl
        rest == right(tmpControl, Len(tmpControl) - 3)
        paren == indexOf(rest, "(", 0)
        inParens == right(rest, Len(rest) - paren - 1)
    IN  [family |-> left(tmpControl, 2),
         number |-> IF paren >= 0 THEN left(rest, paren) ELSE rest,
         hasParen |-> paren >= 0,
         enhancement |-> IF paren >= 0 THEN left(inParens, Len(inParens) - 1) ELSE ""]

\* a variant that inserts the Control whether or not its Family is stored
AddControl_AnyFamily(control, title) ==
    LET p == ParseControl(control)
        enhancement == IF toInt(p.enhancement) # 0 THEN p.enhancement ELSE ""
    IN  IF Len(trimmed(control)) < 4
        THEN /\ last' = Call("AddControl", FALSE, "Control Does Not Exist")
             /\ UNCHANGED <<Family, Control, CCI, seq>>
        ELSE /\ seq["Control"] < MaxControlId
             /\ Control' = Control \cup
                    {[id |-> seq["Control"] + 1, FamilyId |-> GetFamily(p.family),
                      number |-> toInt(p.number),
                      enhancement |-> IF enhancement = "" THEN Null
                                      ELSE toInt(enhancement),
                      title |-> title]}
             /\ seq' = [seq EXCEPT !["Control"] = @ + 1]
             /\ last' = Call("AddControl", TRUE, "")
             /\ UNCHANGED <<Family, CCI>>

AddControl(control, title) ==
    LET p == ParseControl(control)
        enhancement == IF toInt(p.enhancement) # 0 THEN p.enhancement ELSE ""
        number == p.number
        f == GetFamily(p.family)
    IN  IF Len(trimmed(control)) < 4
        THEN /\ last' = Call("AddControl", FALSE, "Control Does Not Exist")
             /\ UNCHANGED <<Family, Control, CCI, seq>>
        ELSE IF f >= 0
        THEN /\ seq["Control"] < MaxControlId
             /\ Control' = Control \cup
                    {[id |-> seq["Control"] + 1, FamilyId |-> f,
                      number |-> toInt(number),
                      enhancement |-> IF enhancement = "" THEN Null
                                      ELSE toInt(enhancement),
                      title |-> title]}
             /\ seq' = [seq EXCEPT !["Control"] = @ + 1]
             /\ last' = Call("AddControl", TRUE, "")
             /\ UNCHANGED <<Family, CCI>>
        ELSE /\ last' = Call("AddControl", FALSE, "Family Does Not Exist")
             /\ UNCHANGED <<Family, Control, CCI, seq>>

(***************************************************************************)
(* DbManager::GetControl(QString): the id of the first Control row with    *)
(* the parsed family and number (and enhancement, when it is positive),    *)
(* -1 when no row matches.                                                 *)
(***************************************************************************)
GetControl(control) ==
    LET p == ParseControl(control)
        enhancement == IF p.hasParen THEN toInt(p.enhancement) ELSE -1
        number == toInt(p.number)
        familyId == GetFamily(p.family)
        rows == {c \in Control : /\ c.number = number
                                 /\ c.FamilyId = familyId
                                 /\ (enhancement > 0 => c.enhancement = enhancement)}
    IN  IF rows = {} THEN -1 ELSE Min({c.id : c \in rows})

(***************************************************************************)
(* DbManager::AddCCI: rejects a CCI number that is stored, otherwise       *)
(* inserts the row with the ControlId the caller supplies.                 *)
(***************************************************************************)
\* a variant without the count of the rows that hold the CCI number
AddCCI_NoCount(cci) ==
    /\ seq["CCI"] < MaxCCIId
    /\ CCI' = CCI \cup {[id |-> seq["CCI"] + 1, ControlId |-> cci.controlId,
                         cci |-> cci.cci, definition |-> cci.definition]}
    /\ seq' = [seq EXCEPT !["CCI"] = @ + 1]
    /\ last' = Call("AddCCI", TRUE, "")
    /\ UNCHANGED <<Family, Control>>

AddCCI(cci) ==
    IF \E c \in CCI : c.cci = cci.cci
    THEN /\ last' = Call("AddCCI", FALSE, "CCI Already Exists")
         /\ UNCHANGED <<Family, Control, CCI, seq>>
    ELSE /\ seq["CCI"] < MaxCCIId
         /\ CCI' = CCI \cup {[id |-> seq["CCI"] + 1, ControlId |-> cci.controlId,
                              cci |-> cci.cci, definition |-> cci.definition]}
         /\ seq' = [seq EXCEPT !["CCI"] = @ + 1]
         /\ last' = Call("AddCCI", TRUE, "")
         /\ UNCHANGED <<Family, Control>>

(***************************************************************************)
(* DbManager::DeleteCCIs: empties Family, Control and CCI.                 *)
(***************************************************************************)
DeleteCCIs ==
    /\ Family' = {}
    /\ Control' = {}
    /\ CCI' = {}
    /\ last' = Call("DeleteCCIs", TRUE, "")
    /\ UNCHANGED seq

(***************************************************************************)
(* WorkerCCIAdd::process.  The families and controls Steps 3a and 4a add   *)
(* after the downloaded ones (NIST SP 800-53r4, Appendix J).               *)
(***************************************************************************)
PrivacyFamilies ==
    << [acronym |-> "AP", description |-> "Authority and Purpose"],
       [acronym |-> "AR", description |-> "Accountability, Audit, and Risk Management"],
       [acronym |-> "DI", description |-> "Data Quality and Integrity"],
       [acronym |-> "DM", description |-> "Data Minimization and Retention"],
       [acronym |-> "IP", description |-> "Individual Participation and Redress"],
       [acronym |-> "SE", description |-> "Security"],
       [acronym |-> "TR", description |-> "Transparency"],
       [acronym |-> "UL", description |-> "Use Limitation"] >>

PC(control, title) == [control |-> control, title |-> title]

PrivacyControls ==
    << PC("AP-1", "AUTHORITY TO COLLECT"),
       PC("AP-2", "PURPOSE SPECIFICATION"),
       PC("AR-1", "GOVERNANCE AND PRIVACY PROGRAM"),
       PC("AR-2", "PRIVACY IMPACT AND RISK ASSESSMENT"),
       PC("AR-3", "PRIVACY REQUIREMENTS FOR CONTRACTORS AND SERVICE PROVIDERS"),
       PC("AR-4", "PRIVACY MONITORING AND AUDITING"),
       PC("AR-5", "PRIVACY AWARENESS AND TRAINING"),
       PC("AR-6", "PRIVACY REPORTING"),
       PC("AR-7", "PRIVACY-ENHANCED SYSTEM DESIGN AND DEVELOPMENT"),
       PC("AR-8", "ACCOUNTING OF DISCLOSURES"),
       PC("DI-1", "DATA QUALITY"),
       PC("DI-1 (1)", "DATA QUALITY | VALIDATE PII"),
       PC("DI-1 (2)", "DATA QUALITY | RE-VALIDATE PII"),
       PC("DI-2", "DATA INTEGRITY AND DATA INTEGRITY BOARD"),
       PC("DI-2 (1)", "DATA INTEGRITY AND DATA INTEGRITY BOARD | PUBLISH AREEMENTS ON WEBSITE"),
       PC("DM-1", "MINIMIZATION OF PERSONALLY IDENTIFIABLE INFORMATION"),
       PC("DM-1 (1)", "MINIMIZATION OF PERSONALLY IDENTIFIABLE INFORMATION | LOCATE / REMOVE / REDACT / ANONYMIZE PII"),
       PC("DM-2", "DATA RETENTION AND DISPOSAL"),
       PC("DM-2 (1)", "DATA RETENTION AND DISPOSAL | SYSTEM CONFIGURATION"),
       PC("DM-3", "MINIMIZATION OF PII USED IN TESTING, TRAINING, AND RESEARCH"),
       PC("DM-3 (1)", "MINIMIZATION OF PII USED IN TESTING, TRAINING, AND RESEARCH | RISK MINIMIZATION TECHNIQUES"),
       PC("IP-1", "CONSENT"),
       PC("IP-1 (1)", "CONSENT | MECHANISMS SUPPORTING ITEMIZED OR TIERED CONSENT"),
       PC("IP-2", "INDIVIDUAL ACCESS"),
       PC("IP-3", "REDRESS"),
       PC("IP-4", "COMPLAINT MANAGEMENT"),
       PC("IP-4 (1)", "COMPLAINT MANAGEMENT | RESPONSE TIMES"),
       PC("SE-1", "INVENTORY OF PERSONALLY IDENTIFIABLE INFORMATION"),
       PC("SE-2", "PRIVACY INCIDENT RESPONSE"),
       PC("TR-1", "PRIVACY NOTICE"),
       PC("TR-1 (1)", "PRIVACY NOTICE | REAL-TIME OR LAYERED NOTICE"),
       PC("TR-2", "SYSTEM OF RECORDS NOTICES AND PRIVACY ACT STATEMENTS"),
       PC("TR-2 (1)", "SYSTEM OF RECORDS NOTICES AND PRIVACY ACT STATEMENTS | PUBLIC WEBSITE PUBLICATION"),
       PC("TR-3", "DISSEMINATION OF PRIVACY PROGRAM INFORMATION"),
       PC("UL-1", "INTERNAL USE"),
       PC("UL-2", "INFORMATION SHARING WITH THIRD PARTIES") >>

(***************************************************************************)
(* The documents the job downloads.  FamilyPages: the texts of the         *)
(* FamilyLink anchors of the NIST page.  ControlFeeds: the start elements  *)
(* of the controls feed in document order, with the text of number and     *)
(* title elements.  CCILists: the reference elements of the CCI list, each *)
(* with the id of its cci_item.                                            *)
(***************************************************************************)
FamilyPages ==
    { <<>>,
      <<"AC - ACCESS CONTROL">>,
      <<"AC - ACCESS CONTROL", "AP - AUTHORITY">> }

El(name, text) == [name |-> name, text |-> text]

ControlFeeds ==
    { <<>>,
      << El("control", ""), El("number", "AC-1"), El("title", "POLICY"),
         El("statement", ""), El("number", "AC-1a."), El("description", ""),
         El("supplemental-guidance", ""),
         El("control-enhancement", ""), El("number", "AC-1 (1)"),
         El("title", "POLICY | REVIEW") >>,
      << El("control", ""), El("number", "XX-1"), El("title", "UNKNOWN"),
         El("statement", "") >> }

Ref(cci, version, index) ==
    [cci |-> cci, version |-> version, index |-> index, definition |-> "d"]

CCILists ==
    { <<>>,
      << Ref("CCI-000001", "4", "AC-1 a"), Ref("CCI-000001", "4", "AC-1 b") >>,
      << Ref("CCI-000001", "4", "AC-1 a"), Ref("CCI-000002", "4", "AC-1 (1)") >>,
      << Ref("CCI-000003", "3", "AC-1"), Ref("CCI-000366", "4", "CM-6 b.") >> }

(***************************************************************************)
(* Step 6: the control id of a Rev 4 reference is its index up to the      *)
(* first space or dot, followed by the parenthesised enhancement when the  *)
(* parenthesis comes before a second space; the CCI is queued with the id  *)
(* GetControl returns for it.                                              *)
(***************************************************************************)
ReferenceControl(index) ==
    LET tmpIndex == indexOf(index, " ", 0)
        upToSpace == IF contains(index, " ") THEN left(index, tmpIndex) ELSE index
        control == IF contains(upToSpace, ".")
                   THEN left(upToSpace, indexOf(upToSpace, ".", 0))
                   ELSE upToSpace
        space2 == indexOf(index, " ", tmpIndex + 1)
        tmpInt == indexOf(index, "(", 0)
    IN  IF contains(index, "(") /\ (space2 <= 0 \/ tmpInt < space2)
        THEN control \o mid(index, tmpInt, indexOf(index, ")", 0) - tmpInt + 1)
        ELSE control

IsRev4(r) == r.cci # "" /\ r.index # "" /\ r.version = "4"

ParseCCIs(refs) ==
    LET rev4 == SelectSeq(refs, IsRev4)
    IN  [i \in 1..Len(rev4) |->
            [cci |-> toInt(right(rev4[i].cci, 6)),
             controlId |-> GetControl(ReferenceControl(rev4[i].index)),
             definition |-> rev4[i].definition]]

\* the arguments of the AddFamily call Step 3 or 3a makes next
FamilyArg ==
    IF worker.pc = "Step3"
    THEN LET family == trimmed(Head(worker.page))
         IN  [acronym |-> left(family, 2),
              description |-> trimmed(right(family, Len(family) - 5))]
    ELSE PrivacyFamilies[worker.i]

\* the arguments of the AddControl call Step 4 or 4a makes next
ControlArg ==
    IF worker.pc = "Step4"
    THEN PC(worker.control, worker.title)
    ELSE PrivacyControls[worker.i]

assetTables == <<Asset, AssetSTIG, CKLCheck>>
stigTables == <<STIG, STIGCheck>>
cciTables == <<Family, Control, CCI>>

\* STIGQter::UpdateCCIs starts the job; its button is enabled while no Family
\* is stored
UpdateCCIs ==
    /\ worker.pc = "idle"
    /\ Family = {}
    /\ \E page \in FamilyPages :
        worker' = [Idle EXCEPT !.pc = "Step3", !.page = page]
    /\ delayCommit' = TRUE
    /\ UNCHANGED <<assetTables, stigTables, cciTables, seq, last, env>>

Step3 ==
    /\ worker.pc = "Step3"
    /\ IF worker.page # <<>>
       THEN /\ AddFamily(FamilyArg.acronym, FamilyArg.description)
            /\ worker' = [worker EXCEPT !.page = Tail(@),
                                        !.families = @ \cup {FamilyArg.acronym}]
            /\ UNCHANGED delayCommit
       ELSE /\ worker' = [worker EXCEPT !.pc = "Step3a", !.i = 1]
            /\ delayCommit' = FALSE
            /\ UNCHANGED <<cciTables, seq, last>>
    /\ UNCHANGED <<assetTables, stigTables, env>>

Step3a ==
    /\ worker.pc = "Step3a"
    /\ worker.i <= Len(PrivacyFamilies)
    /\ AddFamily(FamilyArg.acronym, FamilyArg.description)
    /\ worker' = [worker EXCEPT !.i = @ + 1,
                                !.families = @ \cup {FamilyArg.acronym}]
    /\ UNCHANGED <<assetTables, stigTables, ext>>

DownloadControls ==
    /\ worker.pc = "Step3a"
    /\ worker.i > Len(PrivacyFamilies)
    /\ \E feed \in ControlFeeds :
        worker' = [worker EXCEPT !.pc = "Step4", !.events = feed]
    /\ UNCHANGED <<assetTables, stigTables, cciTables, seq, last, ext>>

\* one start element of the controls feed, or the end of the document
Step4 ==
    /\ worker.pc = "Step4"
    /\ IF worker.events # <<>>
       THEN LET e == Head(worker.events)
            IN  IF e.name \in {"control", "control-enhancement"}
                THEN /\ AddControl(ControlArg.control, ControlArg.title)
                     /\ worker' = [worker EXCEPT !.events = Tail(@),
                                                 !.inStatement = FALSE]
                ELSE /\ worker' =
                        IF worker.inStatement
                        THEN [worker EXCEPT
                                !.events = Tail(@),
                                !.inStatement = (e.name # "supplemental-guidance")]
                        ELSE [worker EXCEPT
                                !.events = Tail(@),
                                !.inStatement = (e.name = "statement"),
                                !.control = IF e.name = "number"
                                            THEN trimmed(e.text) ELSE @,
                                !.title = IF e.name = "title"
                                          THEN trimmed(e.text) ELSE @]
                     /\ UNCHANGED <<cciTables, seq, last>>
       ELSE /\ IF worker.control # ""
               THEN AddControl(ControlArg.control, ControlArg.title)
               ELSE UNCHANGED <<cciTables, seq, last>>
            /\ worker' = [worker EXCEPT !.pc = "Step4a", !.i = 1]
    /\ UNCHANGED <<assetTables, stigTables, ext>>

Step4a ==
    /\ worker.pc = "Step4a"
    /\ worker.i <= Len(PrivacyControls)
    /\ AddControl(ControlArg.control, ControlArg.title)
    /\ worker' = [worker EXCEPT !.i = @ + 1]
    /\ UNCHANGED <<assetTables, stigTables, ext>>

\* Steps 5 and 6: download the CCI list and queue its Rev 4 references
Step6 ==
    /\ worker.pc = "Step4a"
    /\ worker.i > Len(PrivacyControls)
    /\ \E refs \in CCILists :
        worker' = [worker EXCEPT !.pc = "Step7", !.toAdd = ParseCCIs(refs)]
    /\ delayCommit' = TRUE
    /\ UNCHANGED <<assetTables, stigTables, cciTables, seq, last, env>>

\* Step 7: one AddCCI per queued CCI, then finished() and
\* STIGQter::CompletedThread
Step7 ==
    /\ worker.pc = "Step7"
    /\ IF worker.toAdd # <<>>
       THEN /\ AddCCI(Head(worker.toAdd))
            /\ worker' = [worker EXCEPT !.toAdd = Tail(@)]
            /\ delayCommit' = TRUE
       ELSE /\ worker' = Idle
            /\ delayCommit' = FALSE
            /\ UNCHANGED <<cciTables, seq, last>>
    /\ UNCHANGED <<assetTables, stigTables, env>>

(***************************************************************************)
(* The callers' arguments.  An Asset or STIG object handed to the data     *)
(* layer is a row read earlier (possibly deleted since) or a fresh object  *)
(* with the default id -1.                                                 *)
(***************************************************************************)
STIGObject(i, k) ==
    [id |-> i, title |-> k.title, version |-> k.version, release |-> k.release]
\* WorkerSTIGAdd::ParseSTIG builds the STIG with id -1
NewSTIGArgs == {STIGObject(-1, k) : k \in STIGKeys}
\* the callers pass objects read from the database, which carry their id
AssetArgs == [id : 1..MaxAssetId, hostName : {"h1"}]
STIGArgs ==
    {STIGObject(i, [title |-> "t1", version |-> 1, release |-> "r1"]) : i \in 1..MaxSTIGId}
\* the results of the two statements of AddSTIGToAsset
ExecResults == {<<TRUE, TRUE>>, <<TRUE, FALSE>>, <<FALSE, FALSE>>}
\* the checks ParseSTIG collects: the CCI of a rule is the CCI object its
\* lookup returns, a stored row or the default CCI with id -1 (here the
\* rules of one document name the same CCI)
CheckLists ==
    {[i \in 1..n |-> [cciId |-> c]] :
        n \in 0..MaxChecks, c \in {r.id : r \in CCI} \cup {-1}}

(***************************************************************************)
(* The calls of the Asset and STIG operations, made while no job runs.     *)
(***************************************************************************)
DoAddAsset ==
    /\ worker.pc = "idle"
    /\ \E h \in HostNames : AddAsset([id |-> -1, hostName |-> h])
    /\ UNCHANGED <<cciTables, worker, ext>>

DoAddSTIG ==
    /\ worker.pc = "idle"
    /\ \E s \in NewSTIGArgs, cs \in CheckLists, e \in BOOLEAN : AddSTIG(s, cs, e)
    /\ UNCHANGED <<cciTables, worker, ext>>

DoAddSTIGToAsset ==
    /\ worker.pc = "idle"
    /\ \E s \in STIGArgs, a \in AssetArgs, e \in ExecResults :
        AddSTIGToAsset(s, a, e[1], e[2])
    /\ UNCHANGED <<cciTables, worker, ext>>

DoDeleteAsset ==
    /\ worker.pc = "idle"
    /\ \E a \in AssetArgs : DeleteAsset(a)
    /\ UNCHANGED <<cciTables, worker, ext>>

DoDeleteAssetById ==
    /\ worker.pc = "idle"
    /\ \E i \in 1..MaxAssetId : DeleteAssetById(i)
    /\ UNCHANGED <<cciTables, worker, ext>>

DoDeleteSTIG ==
    /\ worker.pc = "idle"
    /\ \E i \in 1..MaxSTIGId : DeleteSTIG(i)
    /\ UNCHANGED <<cciTables, worker, ext>>

DoDeleteSTIGFromAsset ==
    /\ worker.pc = "idle"
    /\ \E s \in STIGArgs, a \in AssetArgs : DeleteSTIGFromAsset(s, a)
    /\ UNCHANGED <<cciTables, worker, ext>>

(***************************************************************************)
(* The jobs of the main window that touch the reference data.  EnableInput *)
(* enables the STIG import while a Family is stored and the clearing of    *)
(* the CCIs while a Family and no STIG is stored.                          *)
(***************************************************************************)
\* STIGQter::AddSTIGs: WorkerSTIGAdd parses a file and calls AddSTIG
AddSTIGs ==
    /\ worker.pc = "idle"
    /\ Family # {}
    /\ \E s \in NewSTIGArgs, cs \in CheckLists : AddSTIG(s, cs, FALSE)
    /\ UNCHANGED <<cciTables, worker, ext>>

\* STIGQter::DeleteSTIGs: DeleteSTIG for a STIG selected in the list
DeleteSTIGs ==
    /\ worker.pc = "idle"
    /\ \E s \in STIG : DeleteSTIG(s.id)
    /\ UNCHANGED <<cciTables, worker, ext>>

\* STIGQter::DeleteCCIs: the job calls DbManager::DeleteCCIs
ClearCCIs ==
    /\ worker.pc = "idle"
    /\ Family # {}
    /\ STIG = {}
    /\ DeleteCCIs
    /\ UNCHANGED <<assetTables, stigTables, worker, ext>>

(***************************************************************************)
(* The database after a CCI import whose downloads returned nothing: the   *)
(* families and controls of Steps 3a and 4a and no CCI.                    *)
(***************************************************************************)
ImportedFamily ==
    {[id |-> i, Acronym |-> PrivacyFamilies[i].acronym,
      Description |-> PrivacyFamilies[i].description] :
        i \in 1..Len(PrivacyFamilies)}

ImportedControl ==
    {LET p == ParseControl(PrivacyControls[i].control)
     IN  [id |-> i,
          FamilyId |-> CHOOSE j \in 1..Len(PrivacyFamilies) :
                            PrivacyFamilies[j].acronym = p.family,
          number |-> toInt(p.number),
          enhancement |-> IF toInt(p.enhancement) # 0
                          THEN toInt(p.enhancement) ELSE Null,
          title |-> PrivacyControls[i].title] :
        i \in 1..Len(PrivacyControls)}

InitImported ==
    /\ Asset = {}
    /\ STIG = {}
    /\ STIGCheck = {}
    /\ AssetSTIG = {}
    /\ CKLCheck = {}
    /\ Family = ImportedFamily
    /\ Control = ImportedControl
    /\ CCI = {}
    /\ worker = Idle
    /\ seq = [t \in TableNames |->
                IF t = "Family" THEN Len(PrivacyFamilies)
                ELSE IF t = "Control" THEN Len(PrivacyControls)
                ELSE 0]
    /\ last = Call("init", TRUE, "")
    /\ InitExt

Next ==
    \/ DoAddAsset
    \/ DoAddSTIG
    \/ DoAddSTIGToAsset
    \/ DoDeleteAsset
    \/ DoDeleteAssetById
    \/ DoDeleteSTIG
    \/ DoDeleteSTIGFromAsset

Spec == InitImported /\ [][Next]_vars

NextCCI ==
    \/ UpdateCCIs
    \/ Step3
    \/ Step3a
    \/ DownloadControls
    \/ Step4
    \/ Step4a
    \/ Step6
    \/ Step7
    \/ AddSTIGs
    \/ DeleteSTIGs
    \/ ClearCCIs

SpecCCI == Init /\ [][NextCCI]_vars

(***************************************************************************)
(* The reference data seen through the calls of the data layer.  Control   *)
(* ids of the forms FF-N and FF-N (E) are added in any order, CCIs are     *)
(* added for stored or missing Controls, and CCIs are looked up by number. *)
(***************************************************************************)
\* the rows this part of the model adds to Control at most
MaxRefControls == 2

\* control ids with the family, number and enhancement they denote
ControlIds ==
    { [text |-> "AC-1", family |-> "AC", number |-> 1, enhancement |-> Null],
      [text |-> "AC-1 (1)", family |-> "AC", number |-> 1, enhancement |-> 1],
      [text |-> "AC-2 (12)", family |-> "AC", number |-> 2, enhancement |-> 12],
      [text |-> "AP-10", family |-> "AP", number |-> 10, enhancement |-> Null] }

RefFamilies ==
    { [acronym |-> "AC", description |-> "ACCESS CONTROL"],
      [acronym |-> "AP", description |-> "Authority and Purpose"] }

\* the CCI numbers asked for: a stored one, the fallback CCI-366, a missing one
CCINumbers == {1, 366, 2}

(***************************************************************************)
(* DbManager::GetCCIByCCI(int cci, const STIG *stig): the row with the CCI *)
(* number; when there is none a "Broken CCI" warning and the row of        *)
(* CCI-366, or the default CCI (id -1) when that is missing too.  It       *)
(* executes SELECT statements only.                                        *)
(***************************************************************************)
\* a variant that gives up without looking for CCI-366
GetCCIByCCI_NoFallback(cci) ==
    LET tmpList == {c \in CCI : c.cci = cci}
    IN  IF tmpList # {}
        THEN [id |-> Min({c.id : c \in tmpList}), warn |-> ""]
        ELSE [id |-> -1, warn |-> "Broken CCI"]

GetCCIByCCI(cci) ==
    LET tmpList == {c \in CCI : c.cci = cci}
        fallback == {c \in CCI : c.cci = 366}
    IN  IF tmpList # {}
        THEN [id |-> Min({c.id : c \in tmpList}), warn |-> ""]
        ELSE IF fallback # {}
        THEN [id |-> Min({c.id : c \in fallback}), warn |-> "Broken CCI"]
        ELSE [id |-> -1, warn |-> "Broken CCI"]

refFrame == <<assetTables, stigTables, worker, ext>>

DoAddFamily ==
    /\ \E f \in RefFamilies : AddFamily(f.acronym, f.description)
    /\ UNCHANGED refFrame

DoAddControl ==
    /\ seq["Control"] < MaxRefControls
    /\ \E c \in ControlIds : AddControl(c.text, "title")
    /\ UNCHANGED refFrame

DoAddCCI ==
    /\ \E n \in {1, 366}, c \in {r.id : r \in Control} \cup {-1} :
        AddCCI([cci |-> n, controlId |-> c, definition |-> "d"])
    /\ UNCHANGED refFrame

DoGetCCIByCCI ==
    /\ \E n \in CCINumbers :
        LET r == GetCCIByCCI(n)
        IN  last' = [op |-> "GetCCIByCCI", ret |-> r.id >= 0, warn |-> r.warn,
                     cci |-> n, id |-> r.id]
    /\ UNCHANGED <<cciTables, seq, refFrame>>

NextRef ==
    \/ DoAddFamily
    \/ DoAddControl
    \/ DoAddCCI
    \/ DoGetCCIByCCI

SpecRef == Init /\ [][NextRef]_vars

(***************************************************************************)
(* The commit mode of a DbManager.  DelayCommit(true) switches journal and *)
(* synchronous mode off and sets _delayCommit; DelayCommit(false) switches *)
(* them back, calls commit() and clears it.  No operation ever opens a     *)
(* transaction, so commit() has nothing buffered to write.                 *)
(***************************************************************************)
DelayCommit(delay) == delayCommit' = delay

\* the operations that add or delete rows
AddDeleteOps ==
    {"AddAsset", "AddCCI", "AddControl", "AddFamily", "AddSTIG", "AddSTIGToAsset",
     "DeleteAsset", "DeleteCCIs", "DeleteSTIG", "DeleteSTIGFromAsset"}

\* the step calls QSqlDatabase::commit(): AddAsset, AddSTIG, AddSTIGToAsset
\* and DeleteSTIGFromAsset call it after their statements whatever the mode,
\* the other operations when _delayCommit is false, DelayCommit when it
\* switches the mode off
CommitCalled ==
    CASE last'.op = "AddAsset" -> last'.warn = ""
      [] last'.op = "AddSTIG" -> STIG' # STIG \/ STIGCheck' # STIGCheck
      [] last'.op = "AddSTIGToAsset" -> CKLCheck' # CKLCheck
      [] last'.op = "DeleteSTIGFromAsset" -> TRUE
      [] last'.op \in {"AddCCI", "AddControl", "AddFamily", "DeleteAsset",
                       "DeleteCCIs", "DeleteSTIG"} ->
            last'.warn = "" /\ ~delayCommit
      [] last'.op = "DelayCommit" -> ~delayCommit'
      [] OTHER -> FALSE

DoDelayCommit ==
    /\ \E delay \in BOOLEAN :
        /\ DelayCommit(delay)
        /\ last' = [op |-> "DelayCommit", ret |-> TRUE, warn |-> "", delay |-> delay]
    /\ UNCHANGED <<assetTables, stigTables, cciTables, seq, worker, env>>

NextCommit ==
    \/ DoDelayCommit
    \/ DoAddAsset
    \/ DoAddFamily
    \/ DoAddSTIG

SpecCommit == Init /\ [][NextCommit]_vars

(***************************************************************************)
(* Checklists.  DbManager::UpdateCKLCheck writes the evaluation of one     *)
(* check: the row with the id of the argument when that is positive,       *)
(* otherwise the row of its Asset and STIGCheck.                           *)
(***************************************************************************)
\* a variant whose second statement selects the rows by the Asset alone
UpdatedCKLChecks_OfAsset(rows, check) ==
    {IF (IF check.id > 0 THEN r.id = check.id
         ELSE r.AssetId = check.assetId)
     THEN [r EXCEPT !.status = check.status,
                    !.findingDetails = check.findingDetails,
                    !.comments = check.comments,
                    !.severityOverride = check.severityOverride,
                    !.severityJustification = check.severityJustification]
     ELSE r : r \in rows}

UpdatedCKLChecks(rows, check) ==
    {IF (IF check.id > 0 THEN r.id = check.id
         ELSE r.AssetId = check.assetId /\ r.STIGCheckId = check.stigCheckId)
     THEN [r EXCEPT !.status = check.status,
                    !.findingDetails = check.findingDetails,
                    !.comments = check.comments,
                    !.severityOverride = check.severityOverride,
                    !.severityJustification = check.severityJustification]
     ELSE r : r \in rows}

UpdateCKLCheck(check) ==
    /\ CKLCheck' = UpdatedCKLChecks(CKLCheck, check)
    /\ last' = Call("UpdateCKLCheck", TRUE, "")
    /\ UNCHANGED <<Asset, STIG, STIGCheck, AssetSTIG, seq>>

Statuses == {"NotReviewed", "Open", "NotAFinding"}
FindingDetails == {"", "details"}

\* AssetView::UpdateCKL: the user edits the check selected in the list; the
\* finding details are taken from the form, the status is the one of the item
DoUpdateCKLCheck ==
    /\ \E r \in CKLCheck, fd \in FindingDetails :
        UpdateCKLCheck([id |-> r.id, assetId |-> r.AssetId,
                        stigCheckId |-> r.STIGCheckId, status |-> r.status,
                        findingDetails |-> fd, comments |-> r.comments,
                        severityOverride |-> r.severityOverride,
                        severityJustification |-> r.severityJustification])
    /\ UNCHANGED <<cciTables, worker, ext>>

(***************************************************************************)
(* The checklist file of an Asset and a STIG, as the export job writes it  *)
(* and the import job reads it: the host name, the STIG's title, version   *)
(* and release, and per check its rule (here the STIGCheck it belongs to), *)
(* the status in the words of the file format and the finding details.     *)
(***************************************************************************)
StatusText(status) ==
    CASE status = "NotReviewed" -> "Not_Reviewed"
      [] status = "Open" -> "Open"
      [] status = "NotAFinding" -> "NotAFinding"
      [] OTHER -> "Not_Applicable"

StatusOf(text) ==
    CASE text = "Open" -> "Open"
      [] text = "NotAFinding" -> "NotAFinding"
      [] text = "Not_Applicable" -> "NotApplicable"
      [] OTHER -> "NotReviewed"

CKLFile(a, t) ==
    [hostName |-> a.hostName,
     stig |-> KeyOf(t),
     vulns |-> {[rule |-> r.STIGCheckId, status |-> StatusText(r.status),
                 findingDetails |-> r.findingDetails] :
                    r \in {c \in CKLCheck :
                            /\ c.AssetId = a.id
                            /\ \E k \in STIGCheck : k.id = c.STIGCheckId
                                                    /\ k.STIGId = t.id}}]

\* STIGQter::ExportCKLs: one file per Asset and STIG attached to it; a file
\* of the same Asset and STIG is overwritten
ExportCKLs ==
    /\ AssetSTIG # {}
    /\ LET written == {CKLFile(a, t) : <<a, t>> \in
                            {p \in Asset \X STIG : p[2] \in GetSTIGs(p[1].id)}}
           named(f) == <<f.hostName, f.stig>>
       IN  files' = {f \in files : \A g \in written : named(g) # named(f)} \cup written
    /\ last' = Call("ExportCKLs", TRUE, "")
    /\ UNCHANGED <<assetTables, stigTables, cciTables, seq, worker, delayCommit,
                   ui, threads, connections, variables, schema>>

\* the files imported in one run
MaxImports == 2

\* the checklist files of other tools the user may choose in the dialogue
ChosenFiles ==
    {[hostName |-> "h1",
      stig |-> [title |-> "t1", version |-> 1, release |-> "r1"],
      vulns |-> {[rule |-> 1, status |-> StatusText(s1), findingDetails |-> fd],
                 [rule |-> 2, status |-> StatusText(s2), findingDetails |-> ""]}] :
        s1 \in Statuses, s2 \in Statuses, fd \in FindingDetails}

\* the calls UpdateCKLCheck(v) for the checks of file f, applied to rows
RECURSIVE UpdateAll(_, _, _)
UpdateAll(rows, assetId, vulns) ==
    IF vulns = {} THEN rows
    ELSE LET v == CHOOSE x \in vulns : TRUE
         IN  UpdateAll(UpdatedCKLChecks(rows,
                          [id |-> -1, assetId |-> assetId, stigCheckId |-> v.rule,
                           status |-> StatusOf(v.status),
                           findingDetails |-> v.findingDetails, comments |-> "",
                           severityOverride |-> "", severityJustification |-> ""]),
                       assetId, vulns \ {v})

\* STIGQter::ImportCKLs for one file: the Asset of the file is added when no
\* Asset has its host name, the STIG of the file is attached to it
\* (AddSTIGToAsset) and every check of the file is written with
\* UpdateCKLCheck.  A file whose STIG is not stored is skipped.
ImportCKLs ==
    \E f \in files \cup ChosenFiles :
        LET found == GetAssetByHostName(f.hostName)
            assetId == IF found > 0 THEN found ELSE seq["Asset"] + 1
            stigId == GetSTIGByKey(f.stig)
            new == NewCKLChecks(assetId, stigId)
        IN  /\ stigId > 0
            /\ \A t \in GetSTIGs(assetId) : t.id # stigId
            /\ assetId <= MaxAssetId
            /\ seq["AssetSTIG"] <= MaxImports
            /\ Asset' = IF found > 0 THEN Asset
                        ELSE Asset \cup {[id |-> assetId, hostName |-> f.hostName]}
            /\ AssetSTIG' = AssetSTIG \cup
                    {[id |-> seq["AssetSTIG"] + 1, AssetId |-> assetId,
                      STIGId |-> stigId]}
            /\ CKLCheck' = UpdateAll(CKLCheck \cup new, assetId, f.vulns)
            /\ seq' = [seq EXCEPT !["Asset"] = IF found > 0 THEN @ ELSE @ + 1,
                                  !["AssetSTIG"] = @ + 1,
                                  !["CKLCheck"] = @ + Cardinality(new)]
            /\ last' = [op |-> "ImportCKLs", ret |-> TRUE, warn |-> "", file |-> f]
            /\ UNCHANGED <<STIG, STIGCheck, cciTables, worker, ext>>

\* the database with one Asset, one STIG of two checks attached to it
InitCKL ==
    /\ Asset = {[id |-> 1, hostName |-> "h1"]}
    /\ STIG = {STIGObject(1, [title |-> "t1", version |-> 1, release |-> "r1"])}
    /\ STIGCheck = {[id |-> i, STIGId |-> 1, CCIId |-> -1] : i \in 1..2}
    /\ AssetSTIG = {[id |-> 1, AssetId |-> 1, STIGId |-> 1]}
    /\ CKLCheck = {[id |-> i, AssetId |-> 1, STIGCheckId |-> i,
                    status |-> "NotReviewed", findingDetails |-> "",
                    comments |-> "", severityOverride |-> "",
                    severityJustification |-> ""] : i \in 1..2}
    /\ Family = ImportedFamily
    /\ Control = ImportedControl
    /\ CCI = {}
    /\ worker = Idle
    /\ seq = [t \in TableNames |->
                IF t = "Family" THEN Len(PrivacyFamilies)
                ELSE IF t = "Control" THEN Len(PrivacyControls)
                ELSE IF t \in {"STIGCheck", "CKLCheck"} THEN 2
                ELSE 1]
    /\ last = Call("AddSTIGToAsset", TRUE, "")
    /\ InitExt

NextCKL ==
    \/ DoUpdateCKLCheck
    \/ ExportCKLs
    \/ DoDeleteSTIGFromAsset
    \/ DoDeleteAsset
    \/ ImportCKLs

SpecCKL == InitCKL /\ [][NextCKL]_vars

(***************************************************************************)
(* The main window and its jobs.  A job is the QThread and the worker a    *)
(* slot of STIGQter appends to threads and workers: kind is the slot,      *)
(* serial the number of the thread among those the program started (the    *)
(* interactive thread is 0), id the handle QThread::currentThreadId()      *)
(* returns on it, moved whether the slot called moveToThread, thread the   *)
(* thread process() ran on (NoThread before it ran) and pc the position of *)
(* the job.  The handle of a thread that was joined and deleted may be     *)
(* given to a later thread.                                                *)
(***************************************************************************)
MaxJobs == 2
ThreadIds == {1, 2}
NoThread == -1

\* a DbManager is constructed by thread number serial under the handle id:
\* QSqlDatabase::database(connectionName) is valid when the connection is
\* registered and belongs to the calling thread; otherwise addDatabase
\* registers a new one, replacing a connection of that name
Connect(conns, serial, name) ==
    IF name \in DOMAIN conns /\ conns[name].created = serial
    THEN [conns EXCEPT ![name].users = @ \cup {serial}]
    ELSE [n \in DOMAIN conns \cup {name} |->
            IF n = name THEN [created |-> serial, users |-> {serial}]
            ELSE conns[n]]

\* a variant that names every connection alike
ConnectionName_Shared(id) == MainThread

\* DbManager::DbManager(): the connection is named by the calling thread's id
ConnectionName(id) == id

Unfinished == {i \in DOMAIN threads : threads[i].pc # "finished"}
FreeIds == ThreadIds \ {threads[i].id : i \in DOMAIN threads}

\* DisableInput, the _updated flag, the new QThread and worker, t->start()
StartJob(kind, widget, moved, flag, arg) ==
    /\ ui.pc = "idle"
    /\ widget \in ui.enabled
    /\ ui.jobs < MaxJobs
    /\ \E id \in FreeIds :
        threads' = Append(threads,
            [kind |-> kind, serial |-> ui.jobs + 1, id |-> id, moved |-> moved,
             thread |-> NoThread, arg |-> arg, pc |-> "started"])
    /\ ui' = [ui EXCEPT !.enabled = {}, !.updated = @ \cup {flag}, !.jobs = @ + 1]

dbFrame == <<Asset, STIG, STIGCheck, AssetSTIG, CKLCheck, Family, Control, CCI, seq, last>>
uiFrame == <<worker, delayCommit, files, variables, schema>>

\* STIGQter::UpdateCCIs
StartUpdateCCIs ==
    /\ StartJob("UpdateCCIs", "btnImportCCIs", TRUE, "CCIs", {})
    /\ UNCHANGED <<dbFrame, uiFrame, connections>>

\* STIGQter::DeleteCCIs
StartDeleteCCIs ==
    /\ StartJob("DeleteCCIs", "btnClearCCIs", TRUE, "CCIs", {})
    /\ UNCHANGED <<dbFrame, uiFrame, connections>>

\* STIGQter::AddSTIGs: the files chosen hold one STIG
StartAddSTIGs ==
    /\ StartJob("AddSTIGs", "btnImportSTIGs", FALSE, "STIGs",
                {STIGObject(-1, [title |-> "t1", version |-> 1, release |-> "r1"])})
    /\ UNCHANGED <<dbFrame, uiFrame, connections>>

\* STIGQter::AddAsset: the worker is given the host name entered and the STIGs
\* selected in the list
StartAddAsset ==
    /\ StartJob("AddAsset", "btnCreateCKL", FALSE, "Assets", ui.selSTIGs)
    /\ UNCHANGED <<dbFrame, uiFrame, connections>>

\* STIGQter::DeleteSTIGs: DeleteSTIG is called for the STIG selected, by the
\* interactive thread, before the job is started
StartDeleteSTIGs ==
    /\ StartJob("DeleteSTIGs", "btnClearSTIGs", TRUE, "STIGs", {})
    /\ IF ui.selSTIGs = {}
       THEN UNCHANGED <<Asset, STIG, STIGCheck, AssetSTIG, CKLCheck, seq, last>>
       ELSE \E t \in ui.selSTIGs : DeleteSTIG(t.id)
    /\ UNCHANGED <<cciTables, uiFrame, connections>>

\* the selection of lstAssets changes: STIGQter::SelectAsset calls EnableInput
SelectAsset ==
    /\ ui.pc = "idle"
    /\ \E a \in ui.lstAssets :
        LET sel == IF a \in ui.selAssets THEN {} ELSE {a}
        IN  ui' = [ui EXCEPT !.selAssets = sel,
                             !.enabled = EnableInput(Family, STIG, sel, ui.selSTIGs)]
    /\ UNCHANGED <<dbFrame, uiFrame, threads, connections>>

\* the selection of lstSTIGs changes: STIGQter::SelectSTIG sets btnCreateCKL
SelectSTIG ==
    /\ ui.pc = "idle"
    /\ \E t \in ui.lstSTIGs :
        LET sel == IF t \in ui.selSTIGs THEN {} ELSE {t}
        IN  ui' = [ui EXCEPT !.selSTIGs = sel,
                             !.enabled = IF sel # {} THEN @ \cup {"btnCreateCKL"}
                                         ELSE @ \ {"btnCreateCKL"}]
    /\ UNCHANGED <<dbFrame, uiFrame, threads, connections>>

\* the rows a CCI import stores, numbered after those stored before
LoadCCIs ==
    IF Family = {}
    THEN /\ seq["Family"] + Len(PrivacyFamilies) <= MaxFamilyId
         /\ Family' = {[f EXCEPT !.id = @ + seq["Family"]] : f \in ImportedFamily}
         /\ Control' = {[c EXCEPT !.id = @ + seq["Control"],
                                  !.FamilyId = @ + seq["Family"]] : c \in ImportedControl}
         /\ CCI' = {}
         /\ seq' = [seq EXCEPT !["Family"] = @ + Len(PrivacyFamilies),
                               !["Control"] = @ + Len(PrivacyControls)]
         /\ last' = Call("AddControl", TRUE, "")
    ELSE /\ last' = Call("AddFamily", FALSE, "")
         /\ UNCHANGED <<cciTables, seq>>

\* WorkerAssetAdd::process: the Asset is added and each STIG given that is
\* still stored is attached to it
AssetAdd(stigs) ==
    IF \E a \in Asset : a.hostName = "h1"
    THEN /\ last' = Call("AddAsset", FALSE, "Asset Already Exists")
         /\ UNCHANGED <<Asset, AssetSTIG, CKLCheck, seq>>
    ELSE LET id == seq["Asset"] + 1
             stored == {t \in stigs : GetSTIG(t) > 0}
         IN  /\ id <= MaxAssetId
             /\ seq["AssetSTIG"] + Cardinality(stored) <= MaxAssetSTIGId
             /\ Asset' = Asset \cup {[id |-> id, hostName |-> "h1"]}
             /\ AssetSTIG' = AssetSTIG \cup
                    {[id |-> seq["AssetSTIG"] + 1, AssetId |-> id,
                      STIGId |-> GetSTIG(t)] : t \in stored}
             /\ CKLCheck' = CKLCheck
             /\ seq' = [seq EXCEPT !["Asset"] = id,
                                   !["AssetSTIG"] = @ + Cardinality(stored)]
             /\ last' = Call("AddAsset", TRUE, "")

\* the started() signal reaches the worker.  The slot process() runs on the
\* thread the worker lives in: the new thread after moveToThread, otherwise
\* the interactive thread, as a queued call of its event loop, where it runs
\* to its end; finished() then quits the thread, whose finished() signal is
\* queued for CompletedThread.
Run(i) ==
    LET j == threads[i]
        serial == IF j.moved THEN j.serial ELSE MainThread
        id == IF j.moved THEN j.id ELSE MainThread
    IN  /\ j.pc = "started"
        /\ connections' = Connect(connections, serial, ConnectionName(id))
        /\ IF j.moved
           THEN /\ threads' = [threads EXCEPT ![i].thread = id,
                        ![i].pc = IF j.kind = "UpdateCCIs" THEN "download" ELSE "process"]
                /\ UNCHANGED <<dbFrame, ui>>
           ELSE /\ ui.pc = "idle"
                /\ threads' = [threads EXCEPT ![i].thread = id, ![i].pc = "finished"]
                /\ ui' = [ui EXCEPT !.pending = @ + 1]
                /\ IF j.kind = "AddSTIGs"
                   THEN \E t \in j.arg : AddSTIG(t, <<>>, FALSE)
                   ELSE /\ AssetAdd(j.arg)
                        /\ UNCHANGED <<STIG, STIGCheck>>
                /\ UNCHANGED cciTables
        /\ UNCHANGED uiFrame

RunJob == \E i \in DOMAIN threads : Run(i)

\* DownloadPage returns: the event loop of the download has quit
DownloadFinished ==
    /\ \E i \in DOMAIN threads :
        /\ threads[i].pc = "download"
        /\ threads' = [threads EXCEPT ![i].pc = "process"]
    /\ UNCHANGED <<dbFrame, uiFrame, ui, connections>>

\* a worker on its own thread ends process(): its database work is done,
\* finished() quits the thread and CompletedThread is queued
EndJob ==
    /\ \E i \in DOMAIN threads :
        /\ threads[i].pc = "process"
        /\ threads' = [threads EXCEPT ![i].pc = "finished"]
        /\ CASE threads[i].kind = "UpdateCCIs" -> LoadCCIs
             [] threads[i].kind = "DeleteCCIs" -> DeleteCCIs
             [] OTHER -> UNCHANGED <<cciTables, seq, last>>
    /\ ui' = [ui EXCEPT !.pending = @ + 1]
    /\ UNCHANGED <<assetTables, stigTables, uiFrame, connections>>

\* STIGQter::CompletedThread up to the wait of CleanThreads
CompletedThread ==
    /\ ui.pc = "idle"
    /\ ui.pending > 0
    /\ ui' = [ui EXCEPT !.pending = @ - 1, !.pc = "CleanThreads",
                        !.enabled = EnableInput(Family, STIG, ui.selAssets, ui.selSTIGs)]
    /\ UNCHANGED <<dbFrame, uiFrame, threads, connections>>

\* STIGQter::CleanThreads has waited for every thread of the list and deleted
\* it; CompletedThread goes on to display the lists whose flag is set, which
\* clears their selection
CleanThreads ==
    /\ ui.pc = "CleanThreads"
    /\ Unfinished = {}
    /\ threads' = <<>>
    /\ ui' = [ui EXCEPT
                !.pc = "idle", !.updated = {},
                !.lstSTIGs = IF "STIGs" \in ui.updated THEN STIG ELSE @,
                !.selSTIGs = IF "STIGs" \in ui.updated THEN {} ELSE @,
                !.lstAssets = IF "Assets" \in ui.updated THEN Asset ELSE @,
                !.selAssets = IF "Assets" \in ui.updated THEN {} ELSE @,
                !.enabled = (@ \ (IF "STIGs" \in ui.updated THEN {"btnCreateCKL"} ELSE {}))
                               \ (IF "Assets" \in ui.updated THEN {"btnOpenCKL"} ELSE {})]
    /\ UNCHANGED <<dbFrame, uiFrame, connections>>

\* btnQuit closes the main window and the program is started again on the
\* database file it left: the destructor has joined the threads, the
\* constructor runs EnableInput and displays the lists
Restart ==
    /\ ui.pc = "idle"
    /\ "btnQuit" \in ui.enabled
    /\ Unfinished = {}
    /\ threads' = <<>>
    /\ ui' = [enabled |-> EnableInput(Family, STIG, {}, {}),
              lstAssets |-> Asset, lstSTIGs |-> STIG,
              selAssets |-> {}, selSTIGs |-> {},
              updated |-> {}, pending |-> 0, jobs |-> 0, pc |-> "idle"]
    /\ connections' = [n \in {MainThread} |->
                        [created |-> MainThread, users |-> {MainThread}]]
    /\ UNCHANGED <<dbFrame, uiFrame>>

NextUI ==
    \/ StartUpdateCCIs
    \/ StartDeleteCCIs
    \/ StartAddSTIGs
    \/ StartAddAsset
    \/ StartDeleteSTIGs
    \/ SelectAsset
    \/ SelectSTIG
    \/ RunJob
    \/ DownloadFinished
    \/ EndJob
    \/ CompletedThread
    \/ CleanThreads
    \/ Restart

SpecUI == Init /\ [][NextUI]_vars

(***************************************************************************)
(* The schema.  schema holds the tables of the database file (none while   *)
(* the file does not exist) and variables the rows of table variables in   *)
(* the order of their insertion.                                           *)
(***************************************************************************)
MaxVariables == 3
VariableNames == {"version", "loglevel"}
VariableValues == {"0", "1", "2"}

\* DbManager::GetVariable: the value of the first row of that name, "" when
\* there is none
GetVariable(rows, name) ==
    IF \E i \in DOMAIN rows : rows[i].name = name
    THEN rows[CHOOSE i \in DOMAIN rows :
                /\ rows[i].name = name
                /\ \A j \in DOMAIN rows : rows[j].name = name => i <= j].value
    ELSE ""

\* a variant that runs the steps of version 1 whatever version is stored
UpdateDatabaseFromVersion_Always(tables, rows, version) ==
    [schema |-> tables \cup TableNames \cup {"variables"},
     variables |-> Append(rows, [name |-> "version", value |-> "1"])]

\* DbManager::UpdateDatabaseFromVersion, as the schema and the variables it
\* leaves: for a version below 1 each CREATE TABLE creates the table that is
\* missing (it fails on one that exists) and the row ('version', '1') is
\* inserted
UpdateDatabaseFromVersion(tables, rows, version) ==
    IF version <= 0
    THEN [schema |-> tables \cup TableNames \cup {"variables"},
          variables |-> Append(rows, [name |-> "version", value |-> "1"])]
    ELSE [schema |-> tables, variables |-> rows]

\* DbManager::DbManager(path, connectionName) on the interactive thread
Construct ==
    LET initialize == schema = {}
        first == IF initialize THEN UpdateDatabaseFromVersion(schema, variables, 0)
                 ELSE [schema |-> schema, variables |-> variables]
        version == toInt(GetVariable(first.variables, "version"))
        second == UpdateDatabaseFromVersion(first.schema, first.variables, version)
    IN  /\ Len(second.variables) <= MaxVariables
        /\ schema' = second.schema
        /\ variables' = second.variables
        /\ connections' = Connect(connections, MainThread, ConnectionName(MainThread))
        /\ delayCommit' = FALSE
        /\ last' = [op |-> "DbManager", ret |-> TRUE, warn |-> "", version |-> version]
        /\ UNCHANGED <<assetTables, stigTables, cciTables, seq, worker, ui, threads, files>>

\* DbManager::UpdateVariable
DoUpdateVariable ==
    /\ schema # {}
    /\ \E n \in VariableNames, v \in VariableValues :
        variables' = [i \in DOMAIN variables |->
                        IF variables[i].name = n
                        THEN [variables[i] EXCEPT !.value = v] ELSE variables[i]]
    /\ last' = Call("UpdateVariable", TRUE, "")
    /\ UNCHANGED <<assetTables, stigTables, cciTables, seq, worker, delayCommit,
                   ui, threads, connections, files, schema>>

\* the operations on the tables, which need a DbManager and so the schema
StoredAddAsset == schema # {} /\ DoAddAsset
StoredAddFamily == schema # {} /\ DoAddFamily

\* the program before its first DbManager is constructed: no database file
InitSchema ==
    /\ Asset = {}
    /\ STIG = {}
    /\ STIGCheck = {}
    /\ AssetSTIG = {}
    /\ CKLCheck = {}
    /\ Family = {}
    /\ Control = {}
    /\ CCI = {}
    /\ worker = Idle
    /\ seq = [t \in TableNames |-> 0]
    /\ last = Call("init", TRUE, "")
    /\ delayCommit = FALSE
    /\ ui = [enabled |-> {}, lstAssets |-> {}, lstSTIGs |-> {},
             selAssets |-> {}, selSTIGs |-> {},
             updated |-> {}, pending |-> 0, jobs |-> 0, pc |-> "idle"]
    /\ threads = <<>>
    /\ connections = <<>>
    /\ files = {}
    /\ variables = <<>>
    /\ schema = {}

NextSchema ==
    \/ Construct
    \/ DoUpdateVariable
    \/ StoredAddAsset
    \/ StoredAddFamily

SpecSchema == InitSchema /\ [][NextSchema]_vars

(***************************************************************************)
(* WorkerEMASSReport::process.  The job's locals are checks, the list      *)
(* GetCKLChecks returned (each check with the CCI of its STIGCheck and its *)
(* status), i the index of the classification loop, failedCCIs and         *)
(* passedCCIs the two maps from a CCI to its list of checks, imported the  *)
(* CCIs with isImport set and rows the rows written to the sheet, in       *)
(* order: the CCI and the text of the column Compliance Status.            *)
(***************************************************************************)
MaxReportChecks == 3
ReportCCIs == {1, 2}
ReportStatuses == {"Open", "NotAFinding", "NotReviewed"}

\* QMap::insert and QList::append on the entry of a key
MapAppend(map, c, cc) ==
    IF c \in DOMAIN map
    THEN [map EXCEPT ![c] = Append(@, cc)]
    ELSE [k \in DOMAIN map \cup {c} |-> IF k = c THEN <<cc>> ELSE map[k]]

\* QMap::remove
MapRemove(map, c) == [k \in DOMAIN map \ {c} |-> map[k]]

\* a variant of the loop body that keeps a CCI passed when a check is open
ClassifyCheck_KeepsPassed(failed, passed, cc) ==
    IF cc.status = "Open"
    THEN [failedCCIs |-> MapAppend(failed, cc.cci, cc), passedCCIs |-> passed]
    ELSE IF cc.status = "NotAFinding" /\ cc.cci \notin DOMAIN failed
    THEN [failedCCIs |-> failed, passedCCIs |-> MapAppend(passed, cc.cci, cc)]
    ELSE [failedCCIs |-> failed, passedCCIs |-> passed]

\* the body of the classification loop for check cc
ClassifyCheck(failed, passed, cc) ==
    IF cc.status = "Open"
    THEN [failedCCIs |-> MapAppend(failed, cc.cci, cc),
          passedCCIs |-> IF cc.cci \in DOMAIN passed THEN MapRemove(passed, cc.cci)
                         ELSE passed]
    ELSE IF cc.status = "NotAFinding" /\ cc.cci \notin DOMAIN failed
    THEN [failedCCIs |-> failed, passedCCIs |-> MapAppend(passed, cc.cci, cc)]
    ELSE [failedCCIs |-> failed, passedCCIs |-> passed]

\* the keys of a map from the one after the last row written, in key order
NextKey(map, written) ==
    CHOOSE c \in DOMAIN map \ written : \A d \in DOMAIN map \ written : c <= d

\* the CCIs of the rows written so far by the loop that writes compliance
Written(rows, compliance) ==
    {rows[k].cci : k \in {j \in DOMAIN rows : rows[j].compliance = compliance}}

reportFrame == <<assetTables, stigTables, cciTables, seq, last, ext>>

\* one pass of "for (int i = 0; i < numChecks; i++)"
Classify ==
    /\ worker.pc = "classify"
    /\ IF worker.i < Len(worker.checks)
       THEN LET r == ClassifyCheck(worker.failedCCIs, worker.passedCCIs,
                                   worker.checks[worker.i + 1])
            IN  worker' = [worker EXCEPT !.i = @ + 1,
                                         !.failedCCIs = r.failedCCIs,
                                         !.passedCCIs = r.passedCCIs]
       ELSE worker' = [worker EXCEPT !.pc = "failed"]
    /\ UNCHANGED reportFrame

\* one pass of the loop over failedCCIs: the row of the next failed CCI
WriteFailed ==
    /\ worker.pc = "failed"
    /\ LET written == Written(worker.rows, "Non-Compliant")
       IN  IF DOMAIN worker.failedCCIs \ written # {}
           THEN worker' = [worker EXCEPT !.rows = Append(@,
                    [cci |-> NextKey(worker.failedCCIs, written),
                     compliance |-> "Non-Compliant"])]
           ELSE worker' = [worker EXCEPT !.pc = "passed"]
    /\ UNCHANGED reportFrame

\* one pass of the loop over passedCCIs: the row of the next passed CCI
WritePassed ==
    /\ worker.pc = "passed"
    /\ LET written == Written(worker.rows, "Compliant")
       IN  IF DOMAIN worker.passedCCIs \ written # {}
           THEN worker' = [worker EXCEPT !.rows = Append(@,
                    [cci |-> NextKey(worker.passedCCIs, written),
                     compliance |-> "Compliant"])]
           ELSE worker' = [worker EXCEPT !.pc = "old"]
    /\ UNCHANGED reportFrame

\* the loop over GetCCIs: the rows of the imported CCIs in neither map, then
\* the workbook is closed
WriteOld ==
    /\ worker.pc = "old"
    /\ LET old == {c \in worker.imported :
                    c \notin DOMAIN worker.failedCCIs /\ c \notin DOMAIN worker.passedCCIs}
           written == Written(worker.rows, "")
       IN  IF old \ written # {}
           THEN worker' = [worker EXCEPT !.rows = Append(@,
                    [cci |-> CHOOSE c \in old \ written : \A d \in old \ written : c <= d,
                     compliance |-> ""])]
           ELSE worker' = [worker EXCEPT !.pc = "done"]
    /\ UNCHANGED reportFrame

\* the job is started on a list of checks in the order GetCKLChecks gives
InitReport ==
    /\ Asset = {}
    /\ STIG = {}
    /\ STIGCheck = {}
    /\ AssetSTIG = {}
    /\ CKLCheck = {}
    /\ Family = ImportedFamily
    /\ Control = ImportedControl
    /\ CCI = {}
    /\ seq = [t \in TableNames |->
                IF t = "Family" THEN Len(PrivacyFamilies)
                ELSE IF t = "Control" THEN Len(PrivacyControls)
                ELSE 0]
    /\ last = Call("init", TRUE, "")
    /\ \E n \in 0..MaxReportChecks :
       \E f \in [1..n -> ReportCCIs \X ReportStatuses] :
       \E imp \in SUBSET ReportCCIs :
        worker = [pc |-> "classify",
                  checks |-> [k \in 1..n |-> [id |-> k, cci |-> f[k][1], status |-> f[k][2]]],
                  i |-> 0, failedCCIs |-> <<>>, passedCCIs |-> <<>>,
                  imported |-> imp, rows |-> <<>>]
    /\ InitExt

NextReport ==
    \/ Classify
    \/ WriteFailed
    \/ WritePassed
    \/ WriteOld

SpecReport == InitReport /\ [][NextReport]_vars

(***************************************************************************)
(* The import fields of the CCI table.  The columns isImport,              *)
(* importCompliance, importDateTested, importTestedBy and                  *)
(* importTestResults are left to their defaults by AddCCI (isImport 0, the *)
(* others NULL, read back as the empty string); DbManager::ImportCCI       *)
(* writes them with an UPDATE statement that has no WHERE clause.          *)
(***************************************************************************)
ImportFieldNames ==
    {"isImport", "importCompliance", "importDateTested", "importTestedBy",
     "importTestResults"}

ImportDefaults ==
    [isImport |-> FALSE, importCompliance |-> "", importDateTested |-> "",
     importTestedBy |-> "", importTestResults |-> ""]

ImportValues ==
    [isImport : BOOLEAN, importCompliance : {"", "Compliant"},
     importDateTested : {"", "d1"}, importTestedBy : {"", "u1"},
     importTestResults : {"", "r1"}]

ImportFields(c) == [f \in ImportFieldNames |-> c[f]]

\* the rows of CCI after UPDATE CCI SET isImport = ..., importCompliance =
\* ..., importDateTested = ..., importTestedBy = ..., importTestResults = ...
ImportCCI(rows, cci) ==
    {[c EXCEPT !.isImport = cci.isImport,
               !.importCompliance = cci.importCompliance,
               !.importDateTested = cci.importDateTested,
               !.importTestedBy = cci.importTestedBy,
               !.importTestResults = cci.importTestResults] : c \in rows}

importFrame == <<assetTables, stigTables, Family, Control, worker, ext>>

\* db.ImportCCI(c) for a stored CCI c whose import fields were set to v
ImportCCIOf(c, v) ==
    /\ c \in CCI
    /\ CCI' = ImportCCI(CCI, [id |-> c.id] @@ v)
    /\ last' = [op |-> "ImportCCI", ret |-> TRUE, warn |-> "", cci |-> c.id]
    /\ UNCHANGED <<seq, importFrame>>

DoImportCCI == \E c \in CCI, v \in ImportValues : ImportCCIOf(c, v)

\* a CCI row as AddCCI stores it, with the defaults of the import columns
StoredAddCCI ==
    /\ seq["CCI"] < MaxCCIId
    /\ CCI' = CCI \cup {[id |-> seq["CCI"] + 1, ControlId |-> 1,
                         cci |-> seq["CCI"] + 1, definition |-> "d"]
                        @@ ImportDefaults}
    /\ seq' = [seq EXCEPT !["CCI"] = @ + 1]
    /\ last' = Call("AddCCI", TRUE, "")
    /\ UNCHANGED importFrame

NextImport ==
    \/ DoImportCCI
    \/ StoredAddCCI

SpecImport == InitImported /\ [][NextImport]_vars

(***************************************************************************)
(* WorkerSTIGAdd::ParseSTIG, element by element.  The reader is past the   *)
(* header of the benchmark (s holds its title, version and release) and    *)
(* delivers the start elements from the first Group on.  A document is a   *)
(* list of Groups; a Group is the list of its Rule elements, TRUE for a    *)
(* Rule with the attributes id, severity and weight and FALSE for one      *)
(* without them.  Texts and ids are pairs: <<k, 0>> is the id and the      *)
(* title of Group k, <<k, j>> the id and the title of its j-th Rule,       *)
(* <<0, 0>> the empty string.  The locals of the call are held in worker.  *)
(***************************************************************************)
MaxGroups == 2
MaxRules == 2

Empty == <<0, 0>>

Element(name, id, full) == [name |-> name, id |-> id, full |-> full]

RECURSIVE RuleElements(_, _, _)
RuleElements(k, g, j) ==
    IF j > Len(g) THEN <<>>
    ELSE <<Element("Rule", <<k, j>>, g[j]), Element("title", <<k, j>>, TRUE)>>
         \o RuleElements(k, g, j + 1)

RECURSIVE GroupElements(_, _)
GroupElements(doc, k) ==
    IF k > Len(doc) THEN <<>>
    ELSE <<Element("Group", <<k, 0>>, TRUE), Element("title", <<k, 0>>, TRUE)>>
         \o RuleElements(k, doc[k], 1) \o GroupElements(doc, k + 1)

\* the Rule elements with all three attributes, in document order
RECURSIVE RulesOf(_)
RulesOf(events) ==
    IF events = <<>> THEN <<>>
    ELSE (IF Head(events).name = "Rule" /\ Head(events).full
          THEN <<Head(events).id>> ELSE <<>>) \o RulesOf(Tail(events))

RuleLists == UNION {[1..n -> BOOLEAN] : n \in 0..MaxRules}
Documents == UNION {[1..n -> RuleLists] : n \in 0..MaxGroups}

\* STIGCheck c as ParseSTIG declares it (c.id = -1, no CCI looked up)
NewCheck ==
    [id |-> -1, rule |-> Empty, vulnNum |-> Empty, groupTitle |-> Empty,
     title |-> Empty, cciId |-> -1]

\* one turn of the while loop on start element e: the first Group switches
\* to the rules; a Group sets c.vulnNum; a Rule appends the check collected
\* before it when there is one (c.id = 0) and starts the next in the same
\* object c; a title goes to c.groupTitle after a Group and to c.title
\* after a Rule
ReadElement(w, e) ==
    LET inStigRules == w.inStigRules \/ e.name = "Group"
        group == inStigRules /\ e.name = "Group"
        rule == inStigRules /\ e.name = "Rule" /\ e.full
        text == inStigRules /\ ~rule /\ e.name = "title"
        c1 == IF group THEN [w.c EXCEPT !.vulnNum = e.id] ELSE w.c
        inGroup == IF group THEN TRUE ELSE IF rule THEN FALSE ELSE w.inGroup
        c2 == IF rule THEN [c1 EXCEPT !.id = 0, !.rule = e.id]
              ELSE IF text /\ inGroup THEN [c1 EXCEPT !.groupTitle = e.id]
              ELSE IF text THEN [c1 EXCEPT !.title = e.id]
              ELSE c1
    IN  [w EXCEPT !.inStigRules = inStigRules, !.inGroup = inGroup, !.c = c2,
                  !.checks = IF rule /\ c1.id = 0 THEN Append(@, c1) ELSE @,
                  !.i = @ + 1]

parseFrame == <<assetTables, stigTables, cciTables, seq, last, ext>>

ReadNext ==
    /\ worker.pc = "parse"
    /\ worker.i < Len(worker.events)
    /\ worker' = ReadElement(worker, worker.events[worker.i + 1])
    /\ UNCHANGED parseFrame

\* the end of the document: the check in c is appended whenever a Group was
\* seen, and the STIG is added with the checks
EndParse ==
    /\ worker.pc = "parse"
    /\ worker.i = Len(worker.events)
    /\ LET checks == IF worker.inStigRules
                     THEN Append(worker.checks, worker.c) ELSE worker.checks
       IN  /\ worker' = [worker EXCEPT !.pc = "done", !.checks = checks]
           /\ AddSTIG(worker.s, checks, FALSE)
    /\ UNCHANGED <<cciTables, ext>>

\* ParseSTIG is called on a document whose checks the tables have room for
InitParse ==
    /\ Asset = {}
    /\ STIG = {}
    /\ STIGCheck = {}
    /\ AssetSTIG = {}
    /\ CKLCheck = {}
    /\ Family = ImportedFamily
    /\ Control = ImportedControl
    /\ CCI = {}
    /\ seq = [t \in TableNames |->
                IF t = "Family" THEN Len(PrivacyFamilies)
                ELSE IF t = "Control" THEN Len(PrivacyControls)
                ELSE 0]
    /\ last = Call("init", TRUE, "")
    /\ \E doc \in Documents, s \in NewSTIGArgs :
        /\ Len(RulesOf(GroupElements(doc, 1))) <= MaxSTIGCheckId
        /\ worker = [pc |-> "parse", doc |-> doc, events |-> GroupElements(doc, 1),
                     i |-> 0, s |-> s, c |-> NewCheck, checks |-> <<>>,
                     inStigRules |-> FALSE, inGroup |-> FALSE]
    /\ InitExt

NextParse ==
    \/ ReadNext
    \/ EndParse

SpecParse == InitParse /\ [][NextParse]_vars

(***************************************************************************)
(* Step 6 of the earlier WorkerCCIAdd::process: the entries of the         *)
(* downloaded archive are read into xmlFile.  An entry is a file that is   *)
(* skipped (its name does not end in .xml, or it cannot be opened) or an   *)
(* .xml entry with the size its header declares (sb.size), the number of   *)
(* bytes its stream delivers (data; less than size for a truncated or      *)
(* damaged archive) and what zip_fread returns once the stream is used up: *)
(* 0 at the end of the file or -1 on an error.  Entries are smaller than   *)
(* the buffer, and a read delivers between one and all remaining bytes.    *)
(* The locals of the job are held in worker; xmlFile is its length.        *)
(***************************************************************************)
MaxEntries == 2
MaxSize == 2

Entries ==
    {[xml |-> FALSE, size |-> 0, data |-> 0, eof |-> 0]}
    \cup [xml : {TRUE}, size : 0..MaxSize, data : 0..MaxSize, eof : {0, -1}]

Archives == UNION {[1..n -> Entries] : n \in 0..MaxEntries}

\* the values zip_fread(zf, buf, 1024) can return after sum bytes were read
zip_fread(entry, sum) ==
    IF sum < entry.data THEN 1..(entry.data - sum) ELSE {entry.eof}

extractFrame == <<assetTables, stigTables, cciTables, seq, last, ext>>

\* the head of the for loop: the next entry is opened or skipped
OpenEntry ==
    /\ worker.pc = "for"
    /\ IF worker.i < Len(worker.entries)
       THEN IF worker.entries[worker.i + 1].xml
            THEN worker' = [worker EXCEPT !.pc = "while", !.sum = 0]
            ELSE worker' = [worker EXCEPT !.i = @ + 1]
       ELSE worker' = [worker EXCEPT !.pc = "Step7"]
    /\ UNCHANGED extractFrame

\* one turn of while (sum < sb.size): a read that delivers bytes appends
\* them and adds to sum, any other read changes nothing; zip_fclose after
\* the loop
ReadEntry ==
    /\ worker.pc = "while"
    /\ LET entry == worker.entries[worker.i + 1]
       IN  IF worker.sum < entry.size
           THEN \E len \in zip_fread(entry, worker.sum) :
                    worker' = IF len > 0
                              THEN [worker EXCEPT !.xmlFile = @ + len,
                                                  !.sum = @ + len]
                              ELSE worker
           ELSE worker' = [worker EXCEPT !.pc = "for", !.i = @ + 1]
    /\ UNCHANGED extractFrame

InitExtract ==
    /\ Asset = {}
    /\ STIG = {}
    /\ STIGCheck = {}
    /\ AssetSTIG = {}
    /\ CKLCheck = {}
    /\ Family = ImportedFamily
    /\ Control = ImportedControl
    /\ CCI = {}
    /\ seq = [t \in TableNames |->
                IF t = "Family" THEN Len(PrivacyFamilies)
                ELSE IF t = "Control" THEN Len(PrivacyControls)
                ELSE 0]
    /\ last = Call("init", TRUE, "")
    /\ \E za \in Archives :
        worker = [pc |-> "for", entries |-> za, i |-> 0, sum |-> 0, xmlFile |-> 0]
    /\ InitExt

NextExtract ==
    \/ OpenEntry
    \/ ReadEntry

SpecExtract == InitExtract /\ [][NextExtract]_vars

(***************************************************************************)
(* DbManager::DbManager(path, connectionName) statement by statement, run  *)
(* by two threads at once on a database that does not exist yet.  Each     *)
(* thread has its own connection and no transaction is opened, so every    *)
(* SQL statement takes effect on its own and the statements of the two     *)
(* threads interleave.  threads holds the position and the locals of each  *)
(* constructor; the database file is an element of files once a            *)
(* connection was opened on it.                                            *)
(***************************************************************************)
DbFile == [path |-> "STIGQter.db"]

\* the statements of UpdateDatabaseFromVersion for a version below 1, in
\* the order they are executed
Statements ==
    <<"Family", "Control", "CCI", "variables", "STIG", "STIGCheck", "Asset",
      "AssetSTIG", "CKLCheck", "INSERT">>

Constructor(id) ==
    [id |-> id, pc |-> "exists", initialize |-> FALSE, version |-> 0, stmt |-> 0]

raceFrame ==
    <<assetTables, stigTables, cciTables, seq, last, worker, delayCommit, ui>>

\* if (!QFile::exists(path)) initialize = true
CheckFile ==
    \E t \in DOMAIN threads :
        /\ threads[t].pc = "exists"
        /\ threads' = [threads EXCEPT ![t].pc = "open",
                                      ![t].initialize = DbFile \notin files]
        /\ UNCHANGED <<connections, files, schema, variables, raceFrame>>

\* the connection of the thread is looked up or added, and opened, which
\* creates the file; then UpdateDatabaseFromVersion(0) when initialize is
\* set, else the version is read
OpenDatabase ==
    \E t \in DOMAIN threads :
        /\ threads[t].pc = "open"
        /\ connections' = Connect(connections, threads[t].id,
                                  ConnectionName(threads[t].id))
        /\ files' = files \cup {DbFile}
        /\ threads' = [threads EXCEPT
                        ![t].pc = IF threads[t].initialize THEN "first" ELSE "version",
                        ![t].stmt = 1]
        /\ UNCHANGED <<schema, variables, raceFrame>>

\* one statement of UpdateDatabaseFromVersion: CREATE TABLE creates the
\* table unless it exists, INSERT adds the row ('version', '1')
ExecStatement ==
    \E t \in DOMAIN threads :
        LET st == Statements[threads[t].stmt]
        IN  /\ threads[t].pc \in {"first", "second"}
            /\ IF st = "INSERT"
               THEN /\ variables' = IF "variables" \in schema
                                    THEN Append(variables,
                                                [name |-> "version", value |-> "1"])
                                    ELSE variables
                    /\ UNCHANGED schema
               ELSE /\ schema' = schema \cup {st}
                    /\ UNCHANGED variables
            /\ threads' = [threads EXCEPT
                            ![t].stmt = IF @ < Len(Statements) THEN @ + 1 ELSE 1,
                            ![t].pc = IF threads[t].stmt < Len(Statements) THEN @
                                      ELSE IF @ = "first" THEN "version"
                                      ELSE "done"]
            /\ UNCHANGED <<connections, files, raceFrame>>

\* int version = GetVariable("version").toInt();
\* UpdateDatabaseFromVersion(version) runs the statements for a version
\* below 1 and nothing otherwise
ReadVersion ==
    \E t \in DOMAIN threads :
        LET version == toInt(GetVariable(variables, "version"))
        IN  /\ threads[t].pc = "version"
            /\ threads' = [threads EXCEPT
                            ![t].version = version,
                            ![t].pc = IF version <= 0 THEN "second" ELSE "done",
                            ![t].stmt = 1]
            /\ UNCHANGED <<connections, files, schema, variables, raceFrame>>

\* no database file; two threads are about to construct a DbManager
InitRace ==
    /\ Asset = {}
    /\ STIG = {}
    /\ STIGCheck = {}
    /\ AssetSTIG = {}
    /\ CKLCheck = {}
    /\ Family = {}
    /\ Control = {}
    /\ CCI = {}
    /\ worker = Idle
    /\ seq = [t \in TableNames |-> 0]
    /\ last = Call("init", TRUE, "")
    /\ delayCommit = FALSE
    /\ ui = [enabled |-> {}, lstAssets |-> {}, lstSTIGs |-> {},
             selAssets |-> {}, selSTIGs |-> {},
             updated |-> {}, pending |-> 0, jobs |-> 0, pc |-> "idle"]
    /\ threads = <<Constructor(1), Constructor(2)>>
    /\ connections = <<>>
    /\ files = {}
    /\ variables = <<>>
    /\ schema = {}

NextRace ==
    \/ CheckFile
    \/ OpenDatabase
    \/ ExecStatement
    \/ ReadVersion

SpecRace == InitRace /\ [][NextRace]_vars

(***************************************************************************)
(* Helpers of the properties.                                              *)
(***************************************************************************)
Ids(T) == {r.id : r \in T}

\* the CKLCheck row k of Asset a grades a STIGCheck of STIG s (tables as of now)
Grades(k, a, s) ==
    /\ k.AssetId = a
    /\ \E c \in STIGCheck : c.id = k.STIGCheckId /\ c.STIGId = s

(***************************************************************************)
(* C1: a call of AddSTIGToAsset for an Asset and a STIG that both exist,   *)
(* when it returns true, creates exactly one CKLCheck row of that Asset    *)
(* for every STIGCheck of the STIG and no other row; every created row has *)
(* status NotReviewed and empty finding details, comments and severity     *)
(* justification.                                                          *)
(***************************************************************************)
C1_AttachCreatesOneCheckPerSTIGCheck ==
    [][\A s \in STIGArgs, a \in AssetArgs, e \in ExecResults :
        (/\ last'.op = "AddSTIGToAsset"
         /\ last'.ret
         /\ GetAsset(a) > 0
         /\ GetSTIG(s) > 0
         /\ AddSTIGToAsset(s, a, e[1], e[2]))
        => LET created == CKLCheck' \ CKLCheck
           IN  /\ \A c \in STIGCheck :
                    c.STIGId = GetSTIG(s) =>
                        Cardinality({k \in created : /\ k.AssetId = GetAsset(a)
                                                     /\ k.STIGCheckId = c.id}) = 1
               /\ \A k \in created :
                    /\ Grades(k, GetAsset(a), GetSTIG(s))
                    /\ k.status = "NotReviewed"
                    /\ k.findingDetails = ""
                    /\ k.comments = ""
                    /\ k.severityJustification = ""
               /\ CKLCheck \subseteq CKLCheck']_vars

\* a STIG was attached while a STIGCheck of another STIG exists: the Asset has
\* a row for the check of its STIG and none for the other check
C1_Witness ==
    /\ last.op = "AddSTIGToAsset"
    /\ last.ret
    /\ \E k \in CKLCheck, c \in STIGCheck, d \in STIGCheck :
        /\ k.STIGCheckId = c.id
        /\ d.STIGId # c.STIGId
        /\ ~\E j \in CKLCheck : j.STIGCheckId = d.id

(***************************************************************************)
(* C2: DeleteAsset on an Asset of the database that has an AssetSTIG row   *)
(* returns false and changes no table; on an Asset of the database with no *)
(* AssetSTIG row it removes that Asset row, nothing else, and returns true.*)
(***************************************************************************)
C2_DeleteAssetGuardedByMappedSTIGs ==
    [][\A a \in AssetArgs :
        (/\ last'.op = "DeleteAsset"
         /\ a.id \in Ids(Asset)
         /\ DeleteAsset(a))
        => IF \E m \in AssetSTIG : m.AssetId = a.id
           THEN /\ ~last'.ret
                /\ UNCHANGED <<Asset, STIG, STIGCheck, AssetSTIG, CKLCheck>>
           ELSE /\ last'.ret
                /\ Asset' = {r \in Asset : r.id # a.id}
                /\ Asset' # Asset
                /\ UNCHANGED <<STIG, STIGCheck, AssetSTIG, CKLCheck>>]_vars

\* the deletion of an Asset with a checklist was refused
C2_Witness ==
    /\ last.op = "DeleteAsset"
    /\ ~last.ret
    /\ last.warn = "Asset Has Mapped STIGs"
    /\ \E m \in AssetSTIG, k \in CKLCheck : k.AssetId = m.AssetId

(***************************************************************************)
(* C3: DeleteSTIG on a STIG that an AssetSTIG row references returns false *)
(* and changes no table.                                                   *)
(***************************************************************************)
C3_DeleteSTIGRefusedWhileInUse ==
    [][\A i \in 1..MaxSTIGId :
        (/\ last'.op = "DeleteSTIG"
         /\ \E m \in AssetSTIG : m.STIGId = i
         /\ DeleteSTIG(i))
        => /\ ~last'.ret
           /\ UNCHANGED <<Asset, STIG, STIGCheck, AssetSTIG, CKLCheck>>]_vars

\* the deletion of a STIG with checks that an Asset uses was refused
C3_Witness ==
    /\ last.op = "DeleteSTIG"
    /\ ~last.ret
    /\ last.warn = "STIG In Use"
    /\ \E m \in AssetSTIG, c \in STIGCheck : c.STIGId = m.STIGId

(***************************************************************************)
(* C4: DeleteSTIGFromAsset for a STIG and an Asset that both exist leaves  *)
(* no AssetSTIG row of the pair and no CKLCheck row of the Asset that      *)
(* grades a STIGCheck of the STIG, and keeps every other AssetSTIG row and *)
(* every CKLCheck row of another Asset or of another STIG as it was.       *)
(***************************************************************************)
C4_DetachRemovesOnlyThePair ==
    [][\A s \in STIGArgs, a \in AssetArgs :
        (/\ last'.op = "DeleteSTIGFromAsset"
         /\ GetAsset(a) > 0
         /\ GetSTIG(s) > 0
         /\ DeleteSTIGFromAsset(s, a))
        => /\ ~\E m \in AssetSTIG' : m.AssetId = GetAsset(a) /\ m.STIGId = GetSTIG(s)
           /\ ~\E k \in CKLCheck' : Grades(k, GetAsset(a), GetSTIG(s))
           /\ \A m \in AssetSTIG :
                (m.AssetId # GetAsset(a) \/ m.STIGId # GetSTIG(s)) => m \in AssetSTIG'
           /\ \A k \in CKLCheck :
                ~Grades(k, GetAsset(a), GetSTIG(s)) => k \in CKLCheck'
           /\ AssetSTIG' \subseteq AssetSTIG
           /\ CKLCheck' \subseteq CKLCheck
           /\ UNCHANGED <<Asset, STIG, STIGCheck>>]_vars

\* a checklist was removed (an id of CKLCheck is gone) and another one is left
C4_Witness ==
    /\ last.op = "DeleteSTIGFromAsset"
    /\ last.ret
    /\ CKLCheck # {}
    /\ AssetSTIG # {}
    /\ Cardinality(CKLCheck) < seq["CKLCheck"]
    /\ Cardinality(AssetSTIG) < seq["AssetSTIG"]

(***************************************************************************)
(* C5: every STIGCheck row references a STIG row and a CCI row that both   *)
(* exist, in every state the CCI import, the STIG import, the deletion of  *)
(* STIGs and the clearing of the CCIs reach.                               *)
(***************************************************************************)
C5_STIGChecksReferenceStoredRows ==
    \A c \in STIGCheck : c.STIGId \in Ids(STIG) /\ c.CCIId \in Ids(CCI)

(***************************************************************************)
(* C6: every CCI row references a Control row that exists, in every state  *)
(* the CCI import reaches.                                                 *)
(***************************************************************************)
C6_CCIsReferenceStoredControls ==
    \A c \in CCI : c.ControlId \in Ids(Control)

C8_StoredNaturalKeyIsRejected ==
    [][/\ (/\ \/ worker.pc = "Step3" /\ worker.page # <<>>
              \/ worker.pc = "Step3a" /\ worker.i <= Len(PrivacyFamilies)
           /\ last'.op = "AddFamily"
           /\ \E f \in Family : f.Acronym = FamilyArg.acronym
           /\ AddFamily(FamilyArg.acronym, FamilyArg.description))
          => ~last'.ret /\ UNCHANGED <<assetTables, stigTables, cciTables>>
       /\ (/\ worker.pc = "Step7"
           /\ worker.toAdd # <<>>
           /\ last'.op = "AddCCI"
           /\ \E c \in CCI : c.cci = Head(worker.toAdd).cci
           /\ AddCCI(Head(worker.toAdd)))
          => ~last'.ret /\ UNCHANGED <<assetTables, stigTables, cciTables>>
       /\ \A s \in NewSTIGArgs, cs \in CheckLists :
            (/\ last'.op = "AddSTIG"
             /\ \E t \in STIG : KeyOf(t) = KeyOf(s)
             /\ AddSTIG(s, cs, FALSE))
            => ~last'.ret /\ UNCHANGED <<assetTables, stigTables, cciTables>>]_vars

\* a STIG with checks was imported a second time and rejected, after an import
\* of the CCIs in which the hard-coded family AP met the AP of the page and
\* the second reference of CCI 1 met the first
C8_Witness ==
    /\ last = Call("AddSTIG", FALSE, "STIG Already Exists")
    /\ STIGCheck # {}
    /\ \E f \in Family : f.Acronym = "AP" /\ f.Description = "AUTHORITY"
    /\ {c.cci : c \in CCI} = {1}

(***************************************************************************)
(* C9: no two Asset rows have the same hostName and no two STIG rows have  *)
(* the same (title, version, release).                                     *)
(***************************************************************************)
C9_UniqueHostNamesAndSTIGKeys ==
    /\ \A a \in Asset, b \in Asset : a.hostName = b.hostName => a.id = b.id
    /\ \A s \in STIG, t \in STIG : KeyOf(s) = KeyOf(t) => s.id = t.id

\* two Assets and two STIGs are stored and a second STIG of a stored key was
\* just rejected
C9_Witness ==
    /\ Cardinality(Asset) = 2
    /\ Cardinality(STIG) = 2
    /\ last.op = "AddSTIG"
    /\ ~last.ret

(***************************************************************************)
(* C10: AddSTIGToAsset is all-or-nothing: a call that returns true has     *)
(* created the AssetSTIG row, a call that returns false has created        *)
(* neither an AssetSTIG row nor a CKLCheck row.                            *)
(***************************************************************************)
C10_AttachIsAllOrNothing ==
    [][last'.op = "AddSTIGToAsset" =>
        IF last'.ret
        THEN AssetSTIG' # AssetSTIG
        ELSE AssetSTIG' = AssetSTIG /\ CKLCheck' = CKLCheck]_vars


\* row r holds the family, number and enhancement the control id c denotes
Denotes(c, r) ==
    /\ \E f \in Family : f.id = r.FamilyId /\ f.Acronym = c.family
    /\ r.number = c.number
    /\ r.enhancement = c.enhancement

(***************************************************************************)
(* C12: for a control id FF-N or FF-N (E), a successful AddControl stores  *)
(* a row with family FF, number N and enhancement E (none when absent),    *)
(* and GetControl given the same string then returns a row with that       *)
(* family, number and enhancement.                                         *)
(***************************************************************************)
C12_ControlIdRoundTrip ==
    /\ [][\A c \in ControlIds :
            (/\ last'.op = "AddControl"
             /\ last'.ret
             /\ seq["Control"] < MaxRefControls
             /\ AddControl(c.text, "title"))
            => \E r \in Control' \ Control : Denotes(c, r)]_vars
    /\ [](\A c \in ControlIds :
            (\E r \in Control : Denotes(c, r))
            => \E r \in Control : r.id = GetControl(c.text) /\ Denotes(c, r))

(***************************************************************************)
(* C19: GetCCIByCCI for a CCI number that is not stored raises a warning   *)
(* and returns the CCI-366 row when that row is stored, and the default    *)
(* CCI (id -1) only when neither is stored; for a stored CCI number it     *)
(* returns that row without a warning; no table changes.                   *)
(***************************************************************************)
C19_MissingCCIFallsBackTo366 ==
    [][last'.op = "GetCCIByCCI" /\ DoGetCCIByCCI =>
        LET wanted == {c \in CCI : c.cci = last'.cci}
            fallback == {c \in CCI : c.cci = 366}
        IN  /\ wanted # {} => /\ last'.id \in {c.id : c \in wanted}
                              /\ last'.warn = ""
            /\ wanted = {} => /\ last'.warn # ""
                              /\ fallback # {} => last'.id \in {c.id : c \in fallback}
            /\ last'.id = -1 <=> (wanted = {} /\ fallback = {})
            /\ UNCHANGED <<assetTables, stigTables, cciTables, seq>>]_vars

\* a missing CCI was remapped to the stored CCI-366 with a warning
C19_Witness ==
    /\ last.op = "GetCCIByCCI"
    /\ last.cci = 2
    /\ last.warn = "Broken CCI"
    /\ \E c \in CCI : c.cci = 366 /\ c.id = last.id
    /\ \E c \in CCI : c.cci = 1


(***************************************************************************)
(* C16: after DelayCommit(true) no add or delete operation commits its     *)
(* change, and DelayCommit(false) commits.                                 *)
(***************************************************************************)
C16_DelayedCommitCommitsOnceAtTheEnd ==
    [][/\ (/\ delayCommit
           /\ last'.op \in AddDeleteOps
           /\ <<assetTables, stigTables, cciTables>>' #
                <<assetTables, stigTables, cciTables>>)
          => ~CommitCalled
       /\ (last'.op = "DelayCommit" /\ DoDelayCommit /\ ~delayCommit')
          => CommitCalled]_vars

(***************************************************************************)
(* C17: in WorkerCCIAdd::process every AddFamily, AddControl and AddCCI    *)
(* call is made while the commit is delayed, and the commit is not delayed *)
(* when finished() is emitted.                                             *)
(***************************************************************************)
C17_LoadPhaseRunsWithDelayedCommit ==
    [][/\ (\/ Step3 /\ worker.page # <<>>
           \/ Step3a
           \/ /\ Step4
              /\ IF worker.events # <<>>
                 THEN Head(worker.events).name \in {"control", "control-enhancement"}
                 ELSE worker.control # ""
           \/ Step4a
           \/ Step7 /\ worker.toAdd # <<>>)
          => delayCommit
       /\ (Step7 /\ worker.toAdd = <<>>) => ~delayCommit']_vars


C13_JobsNeverOverlap == Len(threads) <= 1

\* C14: the process() of every job, and with it the job's database work,
\* runs on the thread started for the job and never on the interactive
\* thread.
C14_JobsRunOnTheirOwnThread ==
    \A i \in DOMAIN threads : threads[i].thread # MainThread

C20_StalledDownloadKeepsInputDisabled ==
    \A i \in DOMAIN threads : threads[i].pc = "download" => ui.enabled = {}

\* C18: the DbManager constructed while no database file exists creates the
\* schema and stores version 1; a DbManager constructed on a database whose
\* stored version is 1 or more changes no table and leaves one 'version'
\* row in table variables.
C18_MigrationIsGatedByTheVersion ==
    [][last'.op = "DbManager" =>
        /\ schema = {} =>
            /\ schema' = TableNames \cup {"variables"}
            /\ variables' = <<[name |-> "version", value |-> "1"]>>
        /\ (schema # {} /\ toInt(GetVariable(variables, "version")) >= 1) =>
            /\ UNCHANGED <<schema, variables, assetTables, stigTables, cciTables>>
            /\ (Cardinality({i \in DOMAIN variables : variables[i].name = "version"}) = 1
                 => Cardinality({i \in DOMAIN variables' :
                                    variables'[i].name = "version"}) = 1)]_vars

\* a DbManager was constructed on a database of version 2 that holds rows
C18_Witness ==
    /\ last.op = "DbManager"
    /\ last.version = 2
    /\ Asset # {}
    /\ Len(variables) = 1

\* the checks of CCI c in list l, and those of them with status st
ChecksOf(l, c, st) == {l[k] : k \in {j \in DOMAIN l : l[j].cci = c /\ l[j].status = st}}
Elements(l) == {l[k] : k \in DOMAIN l}

\* C21: when the report is written, a CCI is failed iff one of its checks
\* is Open, and its entry holds exactly its Open checks; it is passed iff
\* none is Open and one is NotAFinding, and its entry holds exactly its
\* NotAFinding checks; no CCI is both; the sheet has at most one row per
\* CCI, Non-Compliant for a failed and Compliant for a passed CCI.
C21_ReportPartitionsCCIs ==
    (worker.pc = "done" /\ "rows" \in DOMAIN worker) =>
        /\ \A c \in ReportCCIs :
            LET open == ChecksOf(worker.checks, c, "Open")
                naf == ChecksOf(worker.checks, c, "NotAFinding")
            IN  /\ c \in DOMAIN worker.failedCCIs <=> open # {}
                /\ c \in DOMAIN worker.failedCCIs =>
                    /\ Elements(worker.failedCCIs[c]) = open
                    /\ Len(worker.failedCCIs[c]) = Cardinality(open)
                /\ c \in DOMAIN worker.passedCCIs <=> (open = {} /\ naf # {})
                /\ c \in DOMAIN worker.passedCCIs =>
                    /\ Elements(worker.passedCCIs[c]) = naf
                    /\ Len(worker.passedCCIs[c]) = Cardinality(naf)
                /\ Cardinality({k \in DOMAIN worker.rows : worker.rows[k].cci = c}) <= 1
                /\ c \in DOMAIN worker.failedCCIs =>
                    \E k \in DOMAIN worker.rows :
                        worker.rows[k] = [cci |-> c, compliance |-> "Non-Compliant"]
                /\ c \in DOMAIN worker.passedCCIs =>
                    \E k \in DOMAIN worker.rows :
                        worker.rows[k] = [cci |-> c, compliance |-> "Compliant"]
        /\ DOMAIN worker.failedCCIs \cap DOMAIN worker.passedCCIs = {}

\* a report was written for a CCI whose compliant check came before its
\* open one, beside a passed CCI
C21_Witness ==
    /\ worker.pc = "done"
    /\ "rows" \in DOMAIN worker
    /\ Len(worker.checks) = 3
    /\ worker.checks[1].cci = 1 /\ worker.checks[1].status = "NotAFinding"
    /\ worker.checks[2].cci = 1 /\ worker.checks[2].status = "Open"
    /\ worker.checks[3].cci = 2 /\ worker.checks[3].status = "NotAFinding"
    /\ Len(worker.rows) = 2

\* C22: DeleteAsset(int id) returns true only when the Asset of that id was
\* removed; for an id no Asset has it returns false and changes nothing.
C22_DeleteAssetByIdReportsRemoval ==
    [][\A i \in 1..MaxAssetId :
        DeleteAssetById(i) =>
            /\ last'.ret => \E a \in Asset : a.id = i /\ a \notin Asset'
            /\ GetAssetById(i) = -1 =>
                    ~last'.ret /\ UNCHANGED <<assetTables, stigTables>>]_vars

\* C23: in every state of the main window, jobs running or not, btnClearCCIs
\* is enabled only while no STIG is stored and btnImportCCIs only while no
\* Family is stored.
C23_ClearCCIsOnlyWithoutSTIGs ==
    /\ "btnClearCCIs" \in ui.enabled => STIG = {}
    /\ "btnImportCCIs" \in ui.enabled => Family = {}

\* C24: ImportCCI(cci) changes the import fields of the row of the given CCI
\* only; the import fields of every other CCI row stay as they were.
C24_ImportCCIChangesOneRow ==
    [][\A c \in CCI, v \in ImportValues :
        ImportCCIOf(c, v) =>
            \A o \in CCI : o.id # c.id =>
                \E n \in CCI' : n.id = o.id /\ ImportFields(n) = ImportFields(o)]_vars

\* C25: for a document of several Groups that each enclose one Rule, every
\* STIGCheck passed to AddSTIG carries the id and the title of the Group
\* that encloses its Rule.
C25_CheckCarriesItsOwnGroup ==
    (/\ worker.pc = "done"
     /\ Len(worker.doc) >= 2
     /\ \A k \in DOMAIN worker.doc : worker.doc[k] = <<TRUE>>)
    => \A n \in DOMAIN worker.checks :
        /\ worker.checks[n].vulnNum = <<worker.checks[n].rule[1], 0>>
        /\ worker.checks[n].groupTitle = <<worker.checks[n].rule[1], 0>>

\* C28: the STIGChecks passed to AddSTIG are one per Rule element that has
\* the attributes id, severity and weight, in document order; a document
\* without such a Rule yields none.
C28_OneCheckPerRule ==
    worker.pc = "done" =>
        [n \in DOMAIN worker.checks |-> worker.checks[n].rule]
            = RulesOf(worker.events)

\* C26: whatever AddSTIGToAsset and DeleteSTIGFromAsset calls were made,
\* there is at most one AssetSTIG row per (Asset, STIG) pair and at most
\* one CKLCheck row per (Asset, STIGCheck) pair.
C26_OneRowPerPair ==
    /\ \A r1, r2 \in AssetSTIG :
        (r1.AssetId = r2.AssetId /\ r1.STIGId = r2.STIGId) => r1 = r2
    /\ \A k1, k2 \in CKLCheck :
        (k1.AssetId = k2.AssetId /\ k1.STIGCheckId = k2.STIGCheckId) => k1 = k2

\* the text of the first element called name among the elements l
RECURSIVE TextOf(_, _)
TextOf(l, name) ==
    IF l = <<>> THEN ""
    ELSE IF Head(l).name = name THEN Head(l).text
    ELSE TextOf(Tail(l), name)

\* C27: Step 4 calls AddControl once per control or control-enhancement
\* element, with the number and the title that element contains, never
\* with an empty number, and makes no further call at the end of the feed.
C27_OneAddControlPerElement ==
    [][(worker.pc = "Step4" /\ Step4) =>
        IF worker.events # <<>>
        THEN Head(worker.events).name \in {"control", "control-enhancement"} =>
                /\ ControlArg.control # ""
                /\ ControlArg.control = TextOf(Tail(worker.events), "number")
                /\ ControlArg.title = TextOf(Tail(worker.events), "title")
        ELSE worker.control = ""]_vars

\* C29: the extraction loop terminates for every .xml entry: until Step 7
\* is reached the job can always take a step that changes its state, also
\* after a read that returned zero bytes or an error.
C29_ExtractionTerminates ==
    worker.pc = "Step7" \/ ENABLED <<NextExtract>>_vars

\* C30: when both constructors have returned, every table of the schema
\* exists and the variables table holds exactly one 'version' row.
C30_ConcurrentConstructionInitialisesOnce ==
    (\A t \in DOMAIN threads : threads[t].pc = "done") =>
        /\ schema = TableNames \cup {"variables"}
        /\ Cardinality({i \in DOMAIN variables : variables[i].name = "version"}) = 1

=============================================================================
